---- MODULE Spec2Model ----
(***************************************************************************)
(* Consent ledger and key-distribution protocol of the MindChain health    *)
(* records dApp.                                                           *)
(*                                                                         *)
(* The ledger is the record-specific HealthDataContract (consents carry a  *)
(* recordId); the client side is contractService.ts / cryptoService.ts and *)
(* the provider's record viewer page.                                      *)
(***************************************************************************)
EXTENDS Integers, Sequences, FiniteSets, TLC

\* ------------------------------------------------------------------ bounds
MaxRecords  == 1   \* uploadRecord stops being offered after this many records
MaxConsents == 2    \* grantConsent stops being offered after this many consents
MaxTime     == 2    \* block.timestamp ranges over 0..MaxTime

\* ---------------------------------------------------------------- universe
ZeroAddr == "0x0"                      \* address(0)
Addr     == {"A", "B", "C"}            \* externally owned accounts (msg.sender)
AnyAddr  == Addr \cup {ZeroAddr}       \* values an address parameter can take
Owners   == {"A"}                      \* accounts that upload records
Writers  == {"A", "B"}                 \* senders of grant / revoke / share transactions
Grantees == {"B", ZeroAddr}            \* providerAddress arguments of grant / share
Readers  == {"B"}                      \* providers that are granted consent and read keys
RecordIds  == 0..MaxRecords            \* ids a caller may pass; 0 is never assigned
RecordSlots == 0..(MaxRecords + 1)     \* keys of the record mappings: room for one more upload
ConsentIds == 0..MaxConsents
Times      == 0..MaxTime
Expiries   == {1, MaxTime}             \* expiryDateTimestamp arguments: a short and a long lease
Cids       == {"Qm1", "Qm2"}           \* non-empty IPFS content ids
Pointers   == Cids \cup {""}           \* wrappedKeyIpfsHash arguments

\* Arguments <<sender, recordId, providerAddress, wrappedKeyIpfsHash>> of direct
\* shareWrappedKeyHash transactions: the good call and every call with one
\* argument off (a sender who owns nothing, record 0, the zero address, "").
offBy(a) == (IF a[1] \in Owners THEN 0 ELSE 1) + (IF a[2] # 0 THEN 0 ELSE 1)
              + (IF a[3] # ZeroAddr THEN 0 ELSE 1) + (IF a[4] # "" THEN 0 ELSE 1)
ShareArgs == {a \in Writers \X RecordIds \X Grantees \X {"", "Qm1"} : offBy(a) <= 1}

\* Default (zero) values of the Solidity structs.
NoConsent == [id |-> 0, patientAddress |-> ZeroAddr, providerAddress |-> ZeroAddr,
              recordId |-> 0, purpose |-> "", expiryDate |-> 0, isActive |-> FALSE]
NoRecord  == [id |-> 0, patientAddress |-> ZeroAddr, title |-> "", description |-> "",
              dataHash |-> "", dateCreated |-> 0]

VARIABLES
  consentIds,            \* Counters.Counter _consentIds
  recordIds,             \* Counters.Counter _recordIds
  consents,              \* mapping(uint256 => ConsentRecord)
  healthRecords,         \* mapping(uint256 => HealthRecord)
  wrappedKeyIpfsHashes,  \* mapping(uint256 => mapping(address => string))
  now,                   \* block.timestamp
  ret,                   \* outcome of the last ledger call: op, sender, ok, err, val, events
  ipfs,                  \* the pinned blobs, by content id
  shareCall,             \* the patient's running shareKeyForRecord calls
  recordAccessMap,       \* the provider page's recordAccessMap state
  viewCall,              \* the provider page's running handleViewFile call
  connectedUser,         \* WalletContext: user.address, ZeroAddr while user is null
  selectedAccount,       \* the account selected in the wallet (window.ethereum)
  encryptionKey,         \* KeyContext: the encryptionKey state
  keyCacheRef,           \* KeyContext: keyCacheRef.current.key
  signatureRequests,     \* signMessage requests the wallet has shown
  writeContractInstance, \* contractService: signer of the cached write contract, ZeroAddr for null
  keyCall,               \* the running getOrDeriveEncryptionKey call
  pageCall,              \* the patient page's running handler (upload or consent)
  fileCall               \* a file on its way through encryptData, IPFS and decryptData

ledger == <<consentIds, recordIds, consents, healthRecords, wrappedKeyIpfsHashes>>
session == <<connectedUser, selectedAccount, encryptionKey, keyCacheRef, signatureRequests,
             writeContractInstance, keyCall, pageCall, fileCall>>
client == <<ipfs, shareCall, recordAccessMap, viewCall, session>>
vars   == <<consentIds, recordIds, consents, healthRecords, wrappedKeyIpfsHashes, now, ret,
            ipfs, shareCall, recordAccessMap, viewCall, session>>

\* ----------------------------------------------------------- call outcomes
\* A mined transaction returns val and leaves its events in the receipt; a revert
\* returns the require message and leaves the state as it was.
Ok(op, sender, val, events) ==
  [op |-> op, sender |-> sender, ok |-> TRUE, err |-> "", val |-> val, events |-> events]
Revert(op, sender, msg) ==
  [op |-> op, sender |-> sender, ok |-> FALSE, err |-> msg, val |-> 0, events |-> <<>>]
Event(name, id)     == [name |-> name, id |-> id]

\* modifier recordExists(recordId)
recordExists(recordId) == healthRecords[recordId].id # 0

\* ------------------------------------------------------------ view functions

\* The consent loop looking at the most recent consent only.
hasValidConsent_latestOnly(recordId, providerAddress) ==
  \E i \in {consentIds} \ {0} :
    /\ consents[i].patientAddress = healthRecords[recordId].patientAddress
    /\ consents[i].providerAddress = providerAddress
    /\ consents[i].recordId = recordId
    /\ consents[i].isActive
    /\ now <= consents[i].expiryDate

\* The loop of getWrappedKeyHash over consents 1.._consentIds.current().
hasValidConsent(recordId, providerAddress) ==
  \E i \in 1..consentIds :
    /\ consents[i].patientAddress = healthRecords[recordId].patientAddress
    /\ consents[i].providerAddress = providerAddress
    /\ consents[i].recordId = recordId
    /\ consents[i].isActive
    /\ now <= consents[i].expiryDate

\* getWrappedKeyHash without its consent loop: any caller reads any pointer.
getWrappedKeyHash_publicRead(sender, recordId, providerAddress) ==
  IF ~recordExists(recordId)
    THEN Revert("getWrappedKeyHash", sender, "Record: Does not exist")
  ELSE Ok("getWrappedKeyHash", sender, wrappedKeyIpfsHashes[recordId][providerAddress], <<>>)

\* getWrappedKeyHash(recordId, providerAddress) called by sender.
getWrappedKeyHash(sender, recordId, providerAddress) ==
  IF ~recordExists(recordId)
    THEN Revert("getWrappedKeyHash", sender, "Record: Does not exist")
  ELSE IF providerAddress # sender
    THEN Revert("getWrappedKeyHash", sender, "Access Denied: Caller is not the intended provider")
  ELSE IF ~hasValidConsent(recordId, providerAddress)
    THEN Revert("getWrappedKeyHash", sender, "Access Denied: No active consent found for this record/provider")
  ELSE Ok("getWrappedKeyHash", sender, wrappedKeyIpfsHashes[recordId][providerAddress], <<>>)

\* checkRecordSpecificAccess(patientAddress, providerAddress, recordId)
checkRecordSpecificAccess(patientAddress, providerAddress, recordId) ==
  \E i \in 1..consentIds :
    /\ consents[i].patientAddress = patientAddress
    /\ consents[i].providerAddress = providerAddress
    /\ consents[i].recordId = recordId
    /\ consents[i].isActive
    /\ now <= consents[i].expiryDate

\* ------------------------------------------------------------- transactions

\* The require chain of grantConsent, in the order the contract evaluates it
\* (the modifier first); "" when every check passes.
grantConsentCheck(sender, providerAddress, recordId, expiryDateTimestamp) ==
  IF ~recordExists(recordId) THEN "Record: Does not exist"
  ELSE IF providerAddress = ZeroAddr THEN "Consent: Invalid provider address"
  ELSE IF ~(expiryDateTimestamp > now) THEN "Consent: Expiry must be in the future"
  ELSE IF healthRecords[recordId].patientAddress # sender THEN "Consent: Caller does not own record"
  ELSE ""

\* grantConsent answering with the id of an active consent of the same patient,
\* provider and record when there is one, instead of storing a new consent.
grantConsent_dedup(sender, providerAddress, recordId, purpose, expiryDateTimestamp) ==
  LET err == grantConsentCheck(sender, providerAddress, recordId, expiryDateTimestamp)
      consentId == consentIds + 1
      earlier == {i \in 1..consentIds :
                    /\ consents[i].patientAddress = sender
                    /\ consents[i].providerAddress = providerAddress
                    /\ consents[i].recordId = recordId
                    /\ consents[i].isActive}
  IN IF err # ""
       THEN /\ ret' = Revert("grantConsent", sender, err)
            /\ UNCHANGED <<ledger, now>>
     ELSE IF earlier # {}
       THEN /\ ret' = Ok("grantConsent", sender, CHOOSE i \in earlier : TRUE, <<>>)
            /\ UNCHANGED <<ledger, now>>
       ELSE /\ consentIds < MaxConsents
            /\ consentIds' = consentId
            /\ consents' = [consents EXCEPT ![consentId] =
                 [id |-> consentId, patientAddress |-> sender,
                  providerAddress |-> providerAddress, recordId |-> recordId,
                  purpose |-> purpose, expiryDate |-> expiryDateTimestamp,
                  isActive |-> TRUE]]
            /\ ret' = Ok("grantConsent", sender, consentId, <<Event("ConsentGranted", consentId)>>)
            /\ UNCHANGED <<recordIds, healthRecords, wrappedKeyIpfsHashes, now>>

grantConsent(sender, providerAddress, recordId, purpose, expiryDateTimestamp) ==
  LET err == grantConsentCheck(sender, providerAddress, recordId, expiryDateTimestamp)
      consentId == consentIds + 1
  IN IF err # ""
       THEN /\ ret' = Revert("grantConsent", sender, err)
            /\ UNCHANGED <<ledger, now>>
       ELSE /\ consentIds < MaxConsents
            /\ consentIds' = consentId
            /\ consents' = [consents EXCEPT ![consentId] =
                 [id |-> consentId, patientAddress |-> sender,
                  providerAddress |-> providerAddress, recordId |-> recordId,
                  purpose |-> purpose, expiryDate |-> expiryDateTimestamp,
                  isActive |-> TRUE]]
            /\ ret' = Ok("grantConsent", sender, consentId, <<Event("ConsentGranted", consentId)>>)
            /\ UNCHANGED <<recordIds, healthRecords, wrappedKeyIpfsHashes, now>>

\* revokeConsent without its ownership require.
revokeConsentCheck_anyCaller(sender, consentId) ==
  IF consents[consentId].id = 0 THEN "Consent: Does not exist." ELSE ""

revokeConsentCheck(sender, consentId) ==
  IF consents[consentId].id = 0 THEN "Consent: Does not exist."
  ELSE IF consents[consentId].patientAddress # sender THEN "Consent: Caller is not the patient"
  ELSE ""

\* revokeConsent writing the negated flag instead of false.
revokeConsent_toggle(sender, consentId) ==
  LET err == revokeConsentCheck(sender, consentId)
  IN IF err # ""
       THEN /\ ret' = Revert("revokeConsent", sender, err)
            /\ UNCHANGED <<ledger, now>>
       ELSE /\ consents' = [consents EXCEPT ![consentId].isActive = ~consents[consentId].isActive]
            /\ ret' = Ok("revokeConsent", sender, 0, <<Event("ConsentRevoked", consentId)>>)
            /\ UNCHANGED <<consentIds, recordIds, healthRecords, wrappedKeyIpfsHashes, now>>

\* revokeConsent that also deletes the key pointer of the consent's record and
\* provider.
revokeConsent_dropPointer(sender, consentId) ==
  LET err == revokeConsentCheck(sender, consentId)
  IN IF err # ""
       THEN /\ ret' = Revert("revokeConsent", sender, err)
            /\ UNCHANGED <<ledger, now>>
       ELSE /\ consents' = [consents EXCEPT ![consentId].isActive = FALSE]
            /\ wrappedKeyIpfsHashes' =
                 [wrappedKeyIpfsHashes EXCEPT
                    ![consents[consentId].recordId][consents[consentId].providerAddress] = ""]
            /\ ret' = Ok("revokeConsent", sender, 0, <<Event("ConsentRevoked", consentId)>>)
            /\ UNCHANGED <<consentIds, recordIds, healthRecords, now>>

revokeConsent(sender, consentId) ==
  LET err == revokeConsentCheck(sender, consentId)
  IN IF err # ""
       THEN /\ ret' = Revert("revokeConsent", sender, err)
            /\ UNCHANGED <<ledger, now>>
       ELSE /\ consents' = [consents EXCEPT ![consentId].isActive = FALSE]
            /\ ret' = Ok("revokeConsent", sender, 0, <<Event("ConsentRevoked", consentId)>>)
            /\ UNCHANGED <<consentIds, recordIds, healthRecords, wrappedKeyIpfsHashes, now>>

\* uploadRecord storing under the current counter value instead of the new one.
uploadRecord_within_staleId(limit, sender, title, description, dataHash) ==
  LET recordId == IF recordIds = 0 THEN 1 ELSE recordIds
  IN /\ recordIds < limit
     /\ recordIds' = recordIds + 1
     /\ healthRecords' = [healthRecords EXCEPT ![recordId] =
          [id |-> recordId, patientAddress |-> sender, title |-> title,
           description |-> description, dataHash |-> dataHash, dateCreated |-> now]]
     /\ ret' = Ok("uploadRecord", sender, recordId, <<Event("RecordUploaded", recordId)>>)
     /\ UNCHANGED <<consentIds, consents, wrappedKeyIpfsHashes, now>>

\* uploadRecord, offered while fewer than limit records exist.
uploadRecord_within(limit, sender, title, description, dataHash) ==
  LET recordId == recordIds + 1
  IN /\ recordIds < limit
     /\ recordIds' = recordId
     /\ healthRecords' = [healthRecords EXCEPT ![recordId] =
          [id |-> recordId, patientAddress |-> sender, title |-> title,
           description |-> description, dataHash |-> dataHash, dateCreated |-> now]]
     /\ ret' = Ok("uploadRecord", sender, recordId, <<Event("RecordUploaded", recordId)>>)
     /\ UNCHANGED <<consentIds, consents, wrappedKeyIpfsHashes, now>>

uploadRecord(sender, title, description, dataHash) ==
  uploadRecord_within(MaxRecords, sender, title, description, dataHash)

\* shareWrappedKeyHash without its ownership require.
shareWrappedKeyHashCheck_anyCaller(sender, recordId, providerAddress, wrappedKeyIpfsHash) ==
  IF ~recordExists(recordId) THEN "Record: Does not exist"
  ELSE IF providerAddress = ZeroAddr THEN "KeyShare: Invalid provider address"
  ELSE IF wrappedKeyIpfsHash = "" THEN "KeyShare: Hash cannot be empty"
  ELSE ""

shareWrappedKeyHashCheck(sender, recordId, providerAddress, wrappedKeyIpfsHash) ==
  IF ~recordExists(recordId) THEN "Record: Does not exist"
  ELSE IF healthRecords[recordId].patientAddress # sender THEN "KeyShare: Caller is not record owner"
  ELSE IF providerAddress = ZeroAddr THEN "KeyShare: Invalid provider address"
  ELSE IF wrappedKeyIpfsHash = "" THEN "KeyShare: Hash cannot be empty"
  ELSE ""

\* shareWrappedKeyHash keeping a pointer that is already stored.
shareWrappedKeyHash_keepFirst(sender, recordId, providerAddress, wrappedKeyIpfsHash) ==
  LET err == shareWrappedKeyHashCheck(sender, recordId, providerAddress, wrappedKeyIpfsHash)
  IN IF err # ""
       THEN /\ ret' = Revert("shareWrappedKeyHash", sender, err)
            /\ UNCHANGED <<ledger, now>>
       ELSE /\ wrappedKeyIpfsHashes' =
                 IF wrappedKeyIpfsHashes[recordId][providerAddress] # ""
                   THEN wrappedKeyIpfsHashes
                   ELSE [wrappedKeyIpfsHashes EXCEPT ![recordId][providerAddress] =
                           wrappedKeyIpfsHash]
            /\ ret' = Ok("shareWrappedKeyHash", sender, 0, <<Event("WrappedKeyShared", recordId)>>)
            /\ UNCHANGED <<consentIds, recordIds, consents, healthRecords, now>>

shareWrappedKeyHash(sender, recordId, providerAddress, wrappedKeyIpfsHash) ==
  LET err == shareWrappedKeyHashCheck(sender, recordId, providerAddress, wrappedKeyIpfsHash)
  IN IF err # ""
       THEN /\ ret' = Revert("shareWrappedKeyHash", sender, err)
            /\ UNCHANGED <<ledger, now>>
       ELSE /\ wrappedKeyIpfsHashes' =
                 [wrappedKeyIpfsHashes EXCEPT ![recordId][providerAddress] = wrappedKeyIpfsHash]
            /\ ret' = Ok("shareWrappedKeyHash", sender, 0, <<Event("WrappedKeyShared", recordId)>>)
            /\ UNCHANGED <<consentIds, recordIds, consents, healthRecords, now>>

\* A new block with a later timestamp.
Tick ==
  /\ now < MaxTime
  /\ now' = now + 1
  /\ UNCHANGED <<ledger, ret, client>>

\* ------------------------------------------------------ keys, hex and IPFS
AES_KEY_LENGTH_BITS == 256
KeyBytes == AES_KEY_LENGTH_BITS \div 8

\* Raw AES keys (byte sequences) the patient may hold.
Key1 == [i \in 1..KeyBytes |-> i]
Key2 == [i \in 1..KeyBytes |-> 256 - i]
Keys == {Key1, Key2}
NoKey == <<>>                          \* null

HexDigits == <<"0", "1", "2", "3", "4", "5", "6", "7",
               "8", "9", "a", "b", "c", "d", "e", "f">>
UpperDigits == <<"0", "1", "2", "3", "4", "5", "6", "7",
                 "8", "9", "A", "B", "C", "D", "E", "F">>

\* Value of one hex character, either case; -1 for any other character.
HexValues ==
  [ch \in {HexDigits[v] : v \in 1..16} \cup {UpperDigits[v] : v \in 1..16} |->
     (CHOOSE v \in 1..16 : HexDigits[v] = ch \/ UpperDigits[v] = ch) - 1]
hexValue(ch) == IF ch \in DOMAIN HexValues THEN HexValues[ch] ELSE -1

\* Buffer.from(rawKeyBuffer).toString('hex'): two lower-case digits per byte.
toHex(bytes) ==
  [i \in 1..(2 * Len(bytes)) |->
     IF i % 2 = 1 THEN HexDigits[(bytes[(i + 1) \div 2] \div 16) + 1]
                  ELSE HexDigits[(bytes[i \div 2] % 16) + 1]]

\* String.toLowerCase / toUpperCase on hex text.
toLowerCase(text) ==
  [i \in 1..Len(text) |-> IF hexValue(text[i]) >= 0 THEN HexDigits[hexValue(text[i]) + 1]
                                                     ELSE text[i]]
toUpperCase(text) ==
  [i \in 1..Len(text) |-> IF hexValue(text[i]) >= 0 THEN UpperDigits[hexValue(text[i]) + 1]
                                                     ELSE text[i]]

\* text.startsWith('0x') ? text.substring(2) : text
strip0x(text) ==
  IF Len(text) >= 2 /\ text[1] = "0" /\ text[2] = "x" THEN SubSeq(text, 3, Len(text)) ELSE text

\* /^(0x)?[a-fA-F0-9]+$/.test(text)
isHexString(text) ==
  LET digits == strip0x(text)
  IN Len(digits) > 0 /\ \A i \in 1..Len(digits) : hexValue(digits[i]) >= 0

\* Buffer.from(text, 'hex'): one byte per pair of hex digits, stopping at the
\* first pair that is not hex; an odd last character is dropped.
fromHex(text) ==
  LET pairs == Len(text) \div 2
      good(i) == hexValue(text[2 * i - 1]) >= 0 /\ hexValue(text[2 * i]) >= 0
      n == IF \A i \in 1..pairs : good(i) THEN pairs
           ELSE (CHOOSE i \in 1..pairs : ~good(i) /\ \A j \in 1..(i - 1) : good(j)) - 1
  IN [i \in 1..n |-> 16 * hexValue(text[2 * i - 1]) + hexValue(text[2 * i])]

\* crypto.subtle.importKey('raw', bytes, AES-GCM): the key, or NoKey when the
\* length is not an AES key length (the call throws).
importKey(bytes) ==
  IF 8 * Len(bytes) \in {128, 192, AES_KEY_LENGTH_BITS} THEN bytes ELSE NoKey

\* The content ids of the hex key blobs: an IPFS cid is a hash of its content.
KeyBlob == [c \in Cids |-> IF c = "Qm1" THEN toHex(Key1) ELSE toHex(Key2)]
cidOf(blob) == CHOOSE c \in Cids : KeyBlob[c] = blob
NoBlob == <<>>

\* ----------------------------------------------------------- contractService

\* contractService.getWrappedKeyHash: the contract's answer, "" on any error.
client_getWrappedKeyHash(sender, recordId, providerAddress) ==
  LET read == getWrappedKeyHash(sender, recordId, providerAddress)
  IN IF read.ok THEN read.val ELSE ""

\* getConsentsForProviderByPatient returning the oldest matching consent only.
getConsentsForProviderByPatient_firstOnly(patientAddress, providerAddress) ==
  LET matching == {j \in 1..consentIds :
                     /\ consents[j].patientAddress = patientAddress
                     /\ consents[j].providerAddress = providerAddress}
  IN {consents[i] : i \in {j \in matching : \A k \in matching : j <= k}}

\* contract.getConsentsForProviderByPatient(patientAddress, providerAddress)
getConsentsForProviderByPatient(patientAddress, providerAddress) ==
  {consents[i] : i \in {j \in 1..consentIds :
                          /\ consents[j].patientAddress = patientAddress
                          /\ consents[j].providerAddress = providerAddress}}

\* The client-side check with a consent already expired at its expiry second.
checkProviderAccessForRecordClientSide_strict(targetRecordId, providerAddress, relevantConsents) ==
  \E consent \in relevantConsents :
    /\ consent.providerAddress = providerAddress
    /\ consent.recordId = targetRecordId
    /\ consent.isActive
    /\ consent.expiryDate > now

checkProviderAccessForRecordClientSide(targetRecordId, providerAddress, relevantConsents) ==
  \E consent \in relevantConsents :
    /\ consent.providerAddress = providerAddress
    /\ consent.recordId = targetRecordId
    /\ consent.isActive
    /\ consent.expiryDate >= now

\* -------------------------------------------------------- shareKeyForRecord
ShareIds == {"s1", "s2"}               \* concurrent calls of the patient's client

IdleShare == [pc |-> "idle", sender |-> ZeroAddr, recordId |-> 0, providerAddress |-> ZeroAddr,
              key |-> NoKey, blob |-> NoBlob, cid |-> "", step |-> "Initialization"]

\* Steps 1-3: export the raw key, hex-encode it, wrap the text in a blob.
shareKeyForRecord(s, sender, patientKey, recordId, providerAddress) ==
  /\ shareCall[s].pc = "idle"
  /\ shareCall' = [shareCall EXCEPT ![s] =
       IF Len(patientKey) = 0
         THEN [IdleShare EXCEPT !.pc = "failed", !.step = "Exporting patient key"]
         ELSE [pc |-> "upload", sender |-> sender, recordId |-> recordId,
               providerAddress |-> providerAddress, key |-> patientKey,
               blob |-> toHex(patientKey), cid |-> "",
               step |-> "Uploading hex key blob to IPFS"]]
  /\ UNCHANGED <<ledger, now, ret, ipfs, recordAccessMap, viewCall>>

\* Step 4 going on to the ledger write after a failed upload, with no cid.
shareKeyForRecord_uploaded_unchecked(s, pinned) ==
  /\ shareCall[s].pc = "upload"
  /\ IF pinned
       THEN /\ ipfs' = [ipfs EXCEPT ![cidOf(shareCall[s].blob)] = shareCall[s].blob]
            /\ shareCall' = [shareCall EXCEPT ![s].pc = "store",
                                              ![s].cid = cidOf(shareCall[s].blob),
                                              ![s].step = "Storing hex key hash on blockchain"]
       ELSE /\ shareCall' = [shareCall EXCEPT ![s].pc = "store",
                                              ![s].step = "Storing hex key hash on blockchain"]
            /\ UNCHANGED ipfs
  /\ UNCHANGED <<ledger, now, ret, recordAccessMap, viewCall, session>>

\* Step 4: uploadToIPFS resolves with the cid of the blob, or throws.
shareKeyForRecord_uploaded(s, pinned) ==
  /\ shareCall[s].pc = "upload"
  /\ IF pinned
       THEN /\ ipfs' = [ipfs EXCEPT ![cidOf(shareCall[s].blob)] = shareCall[s].blob]
            /\ shareCall' = [shareCall EXCEPT ![s].pc = "store",
                                              ![s].cid = cidOf(shareCall[s].blob),
                                              ![s].step = "Storing hex key hash on blockchain"]
       ELSE /\ shareCall' = [shareCall EXCEPT ![s].pc = "failed"]
            /\ UNCHANGED ipfs
  /\ UNCHANGED <<ledger, now, ret, recordAccessMap, viewCall, session>>

\* Step 5: shareWrappedKeyWithProvider sends the transaction and waits for
\* its receipt; a rejected or reverted transaction makes it return false.
shareKeyForRecord_stored(s, sent) ==
  /\ shareCall[s].pc = "store"
  /\ IF sent
       THEN /\ shareWrappedKeyHash(shareCall[s].sender, shareCall[s].recordId,
                                   shareCall[s].providerAddress, shareCall[s].cid)
            /\ shareCall' = [shareCall EXCEPT ![s].pc = IF ret'.ok THEN "done" ELSE "failed"]
       ELSE /\ shareCall' = [shareCall EXCEPT ![s].pc = "failed"]
            /\ UNCHANGED <<ledger, now, ret>>
  /\ UNCHANGED <<ipfs, recordAccessMap, viewCall, session>>

\* The promise is settled and the caller has its boolean.
shareKeyForRecord_returned(s) ==
  /\ shareCall[s].pc \in {"done", "failed"}
  /\ shareCall' = [shareCall EXCEPT ![s] = IdleShare]
  /\ UNCHANGED <<ledger, now, ret, ipfs, recordAccessMap, viewCall>>

\* ------------------------------------------------------ provider record page
IdleView == [pc |-> "idle", recordId |-> 0, hash |-> "", hex |-> <<>>, key |-> NoKey,
             step |-> ""]

\* fetchData: recompute recordAccessMap from the consents the ledger returns now;
\* on a failed load the map is cleared.
fetchData(patientAddress, providerAddress, loaded) ==
  /\ recordAccessMap' =
       [r \in RecordIds |->
          /\ loaded
          /\ recordExists(r)
          /\ healthRecords[r].patientAddress = patientAddress
          /\ checkProviderAccessForRecordClientSide(r, providerAddress,
               getConsentsForProviderByPatient(patientAddress, providerAddress))]
  /\ UNCHANGED <<ledger, now, ret, ipfs, shareCall, viewCall, session>>

\* handleViewFile up to its first await on the key: the cached map gates the
\* call, then the encrypted record is fetched.
handleViewFile(recordId, fetched) ==
  /\ viewCall.pc = "idle"
  /\ viewCall' =
       IF ~recordAccessMap[recordId]
         THEN [IdleView EXCEPT !.pc = "failed", !.recordId = recordId, !.step = "Access Denied."]
       ELSE IF ~fetched
         THEN [IdleView EXCEPT !.pc = "failed", !.recordId = recordId,
                               !.step = "Fetching record data..."]
       ELSE [IdleView EXCEPT !.pc = "keyHash", !.recordId = recordId,
                             !.step = "Fetching key location hash"]
  /\ UNCHANGED <<ledger, now, ret, ipfs, shareCall, recordAccessMap, session>>

\* getDecryptionKeyForRecord_Provider step 1, for a call in progress: ask the
\* ledger for the key pointer; an empty answer ends the call with null.
keyLocationFetched(call, providerAddress) ==
  LET sharedKeyIpfsHash ==
        client_getWrappedKeyHash(providerAddress, call.recordId, providerAddress)
  IN IF sharedKeyIpfsHash = ""
       THEN [call EXCEPT !.pc = "failed"]
       ELSE [call EXCEPT !.pc = "keyBlob", !.hash = sharedKeyIpfsHash,
                         !.step = "Fetching hex key data"]

getDecryptionKeyForRecord_Provider(providerAddress) ==
  /\ viewCall.pc = "keyHash"
  /\ viewCall' = keyLocationFetched(viewCall, providerAddress)
  /\ UNCHANGED <<ledger, now, ret, ipfs, shareCall, recordAccessMap, session>>

\* Step 2: fetch the blob and take it as hex text.
getDecryptionKey_fetched(fetched) ==
  /\ viewCall.pc = "keyBlob"
  /\ LET hexKeyDataString == ipfs[viewCall.hash]
     IN viewCall' =
          IF ~fetched \/ hexKeyDataString = NoBlob \/ ~isHexString(hexKeyDataString)
            THEN [viewCall EXCEPT !.pc = "failed"]
            ELSE [viewCall EXCEPT !.pc = "wallet", !.hex = hexKeyDataString,
                                  !.step = "Attempting wallet decryption (eth_decrypt)"]
  /\ UNCHANGED <<ledger, now, ret, ipfs, shareCall, recordAccessMap, session>>

\* What window.ethereum.request('eth_decrypt') may do with the hex text: throw,
\* resolve empty, hand the text back (prefixed, or in upper case), or resolve
\* with some other text.
WalletThrows == [threw |-> TRUE, result |-> <<>>]
walletOutcomes(hexKeyDataString) ==
  {WalletThrows}
    \cup {[threw |-> FALSE, result |-> t] :
            t \in {<<>>, <<"0", "x">> \o hexKeyDataString, toUpperCase(hexKeyDataString),
                   <<"0", "x">> \o toHex(Key1), <<"0", "x">> \o toHex(Key2), <<"z", "z">>}}

\* The hex text the key is imported from, given the wallet's answer.
keyToImportHex(hexKeyDataString, decrypt) ==
  IF decrypt.threw \/ decrypt.result = <<>> THEN hexKeyDataString
  ELSE IF toLowerCase(strip0x(decrypt.result)) = toLowerCase(strip0x(hexKeyDataString))
    THEN hexKeyDataString
  ELSE decrypt.result

\* Steps 3-5: eth_decrypt, hex decoding and importKey.
getDecryptionKey_imported(decrypt) ==
  /\ viewCall.pc = "wallet"
  /\ LET rawKeyBuffer == fromHex(strip0x(keyToImportHex(viewCall.hex, decrypt)))
     IN viewCall' =
          IF Len(rawKeyBuffer) = 0
            THEN [viewCall EXCEPT !.pc = "failed", !.step = "Decoding final hex key"]
          ELSE IF importKey(rawKeyBuffer) = NoKey
            THEN [viewCall EXCEPT !.pc = "failed", !.step = "Importing key"]
          ELSE [viewCall EXCEPT !.pc = "done", !.key = importKey(rawKeyBuffer),
                                !.step = "Importing key"]
  /\ UNCHANGED <<ledger, now, ret, ipfs, shareCall, recordAccessMap, session>>

\* handleViewFile step 3 run whatever getDecryptionKeyForRecord_Provider
\* returned, with no test of the key.
handleViewFile_decrypted_anyKey(decrypted) ==
  /\ viewCall.pc \in {"done", "failed"}
  /\ viewCall.step # "Decrypting record data..."
  /\ viewCall' = IF decrypted
                   THEN [viewCall EXCEPT !.pc = "shown", !.step = ""]
                   ELSE [viewCall EXCEPT !.pc = "failed", !.step = "Decrypting record data..."]
  /\ UNCHANGED <<ledger, now, ret, ipfs, shareCall, recordAccessMap, session>>

\* handleViewFile steps 3-5, reached with the key that
\* getDecryptionKeyForRecord_Provider returned: decryptData on the fetched
\* record and, when it yields the content, the viewer showing it. Whether the
\* record was encrypted under this key is up to whoever uploaded it.
handleViewFile_decrypted(decrypted) ==
  /\ viewCall.pc = "done"
  /\ viewCall' = IF decrypted
                   THEN [viewCall EXCEPT !.pc = "shown", !.step = ""]
                   ELSE [viewCall EXCEPT !.pc = "failed", !.step = "Decrypting record data..."]
  /\ UNCHANGED <<ledger, now, ret, ipfs, shareCall, recordAccessMap, session>>

\* The view has ended, with the content shown or with an error message.
handleViewFile_returned ==
  /\ viewCall.pc \in {"shown", "failed"}
  /\ viewCall' = IdleView
  /\ UNCHANGED <<ledger, now, ret, ipfs, shareCall, recordAccessMap, session>>

\* ------------------------------------------------------ wallet and key session
Accounts      == {"A", "C"}            \* the accounts of the wallet in this browser
MaxSignatures == 2                     \* signature requests stop being offered after this many

\* getSignature + deriveKeyFromSignature_PBKDF2: the message names the
\* address, the signer signs it, PBKDF2 stretches the signature; one key per
\* signing account.
deriveKeyFromSignature_PBKDF2(signer) == IF signer = "A" THEN Key1 ELSE Key2

IdleKeyCall == [pc |-> "idle", userAddress |-> ZeroAddr, signature |-> ZeroAddr, key |-> NoKey]

\* getOrDeriveEncryptionKey without its look at the cache.
getOrDeriveEncryptionKey_noCache(userAddress) ==
  /\ keyCall.pc = "idle"
  /\ signatureRequests < MaxSignatures
  /\ keyCall' = [IdleKeyCall EXCEPT !.pc = "sign", !.userAddress = userAddress]
  /\ signatureRequests' = signatureRequests + 1
  /\ UNCHANGED keyCacheRef

\* getOrDeriveEncryptionKey(userAddress, keyCacheRef.current) up to its first
\* await: a cached key is returned at once, otherwise the wallet is asked to
\* sign.
getOrDeriveEncryptionKey(userAddress) ==
  /\ keyCall.pc = "idle"
  /\ IF keyCacheRef # NoKey
       THEN /\ keyCall' = [IdleKeyCall EXCEPT !.pc = "done", !.userAddress = userAddress,
                                              !.key = keyCacheRef]
            /\ UNCHANGED signatureRequests
       ELSE /\ signatureRequests < MaxSignatures
            /\ keyCall' = [IdleKeyCall EXCEPT !.pc = "sign", !.userAddress = userAddress]
            /\ signatureRequests' = signatureRequests + 1
  /\ UNCHANGED keyCacheRef

\* getSignature resolves: the signature of userAddress, or null when the
\* request was rejected or failed, and then the call returns null.
getSignature_returned(signed) ==
  /\ keyCall.pc = "sign"
  /\ keyCall' = IF signed
                  THEN [keyCall EXCEPT !.pc = "derive", !.signature = keyCall.userAddress]
                  ELSE [keyCall EXCEPT !.pc = "failed"]
  /\ UNCHANGED <<keyCacheRef, signatureRequests>>

\* deriveKeyFromSignature_PBKDF2 resolves with the key, which is cached and
\* returned, or throws, and then the cache is emptied and null returned.
getOrDeriveEncryptionKey_derived(derived) ==
  /\ keyCall.pc = "derive"
  /\ IF derived
       THEN /\ keyCacheRef' = deriveKeyFromSignature_PBKDF2(keyCall.signature)
            /\ keyCall' = [keyCall EXCEPT !.pc = "done",
                                          !.key = deriveKeyFromSignature_PBKDF2(keyCall.signature)]
       ELSE /\ keyCacheRef' = NoKey
            /\ keyCall' = [keyCall EXCEPT !.pc = "failed"]
  /\ UNCHANGED signatureRequests

\* The promise of getOrDeriveEncryptionKey is settled and its caller has the
\* key, or null.
getOrDeriveEncryptionKey_returned ==
  /\ keyCall.pc \in {"done", "failed"}
  /\ keyCall' = IdleKeyCall
  /\ UNCHANGED <<keyCacheRef, signatureRequests>>

\* KeyProvider.clearEncryptionKey: the state and the ref are emptied.
clearEncryptionKey ==
  /\ encryptionKey' = NoKey
  /\ keyCacheRef' = NoKey

IdleFile == [pc |-> "idle", data |-> <<>>, key |-> NoKey, iv |-> <<>>, encryptedData |-> <<>>,
             wire |-> <<>>, fetched |-> <<>>, decryptKey |-> NoKey, attempted |-> FALSE,
             out |-> <<>>, err |-> ""]

IdlePage == [pc |-> "idle", handler |-> "", address |-> ZeroAddr, key |-> NoKey,
             recordId |-> 0, providerAddress |-> ZeroAddr, consentId |-> 0, step |-> ""]

SessionInit ==
  /\ connectedUser = ZeroAddr
  /\ selectedAccount = "A"
  /\ encryptionKey = NoKey
  /\ keyCacheRef = NoKey
  /\ signatureRequests = 0
  /\ writeContractInstance = ZeroAddr
  /\ keyCall = IdleKeyCall
  /\ pageCall = IdlePage
  /\ fileCall = IdleFile

ClientInit ==
  /\ ipfs = [c \in Cids |-> NoBlob]
  /\ shareCall = [s \in ShareIds |-> IdleShare]
  /\ recordAccessMap = [r \in RecordIds |-> FALSE]
  /\ viewCall = IdleView
  /\ SessionInit

\* --------------------------------------------------------------- behaviours
Init ==
  /\ consentIds = 0
  /\ recordIds = 0
  /\ consents = [i \in ConsentIds |-> NoConsent]
  /\ healthRecords = [i \in RecordSlots |-> NoRecord]
  /\ wrappedKeyIpfsHashes = [r \in RecordSlots |-> [a \in AnyAddr |-> ""]]
  /\ now = 0
  /\ ret = Ok("deploy", ZeroAddr, 0, <<>>)
  /\ ClientInit

\* Which of the two contracts this ledger runs: the data-type consent contract
\* keeps a dataType in every ConsentRecord.
legacyDeployed == "dataType" \in DOMAIN consents[0]

Upload  == /\ ~legacyDeployed
           /\ \E s \in Owners : uploadRecord(s, "t", "d", "QmData")
           /\ UNCHANGED client
Grant   == /\ ~legacyDeployed
           /\ \E s \in Writers, p \in Grantees, r \in RecordIds, e \in Expiries :
                grantConsent(s, p, r, "care", e)
           /\ UNCHANGED client
Revoke  == /\ ~legacyDeployed
           /\ \E s \in Writers, c \in ConsentIds : revokeConsent(s, c)
           /\ UNCHANGED client
Share   == /\ ~legacyDeployed
           /\ \E a \in ShareArgs : shareWrappedKeyHash(a[1], a[2], a[3], a[4])
           /\ UNCHANGED client

Next == Upload \/ Grant \/ Revoke \/ Share \/ Tick

Spec == Init /\ [][Next]_vars

\* The consent transactions alone.
ConsentNext == Upload \/ Grant \/ Revoke \/ Tick

SpecConsent == Init /\ [][ConsentNext]_vars

\* ------------------------------------------------- key distribution protocol
\* The patient's transactions, the patient's share calls and the provider's
\* page, interleaved at their awaits. The protocol runs on one record with
\* leases that outlast the run.
SharedRecords == {1}
Leases        == {MaxTime}

PatientGrant  == /\ ~legacyDeployed
                 /\ \E s \in Owners, p \in Readers, r \in SharedRecords, e \in Leases :
                      grantConsent(s, p, r, "care", e)
                 /\ UNCHANGED client
PatientRevoke == /\ ~legacyDeployed
                 /\ \E s \in Owners, c \in 1..MaxConsents : revokeConsent(s, c)
                 /\ UNCHANGED client
ShareStart    == /\ \E s \in ShareIds, o \in Owners, k \in Keys \cup {NoKey},
                         r \in SharedRecords, p \in Readers :
                      shareKeyForRecord(s, o, k, r, p)
                 /\ UNCHANGED session
ShareOnce     == /\ \E o \in Owners, k \in Keys, r \in SharedRecords, p \in Readers :
                      shareKeyForRecord("s1", o, k, r, p)
                 /\ UNCHANGED session
ShareUpload   == \E s \in ShareIds, pinned \in BOOLEAN : shareKeyForRecord_uploaded(s, pinned)
ShareStore    == \E s \in ShareIds, sent \in BOOLEAN : shareKeyForRecord_stored(s, sent)
ShareReturn   == /\ \E s \in ShareIds : shareKeyForRecord_returned(s)
                 /\ UNCHANGED session
PageLoad      == \E o \in Owners, p \in Readers, loaded \in BOOLEAN : fetchData(o, p, loaded)
ViewStart     == \E r \in SharedRecords, fetched \in BOOLEAN : handleViewFile(r, fetched)
ViewKeyHash   == \E p \in Readers : getDecryptionKeyForRecord_Provider(p)
ViewKeyBlob   == \E fetched \in BOOLEAN : getDecryptionKey_fetched(fetched)
ViewImport    == /\ viewCall.pc = "wallet"
                 /\ \E d \in walletOutcomes(viewCall.hex) : getDecryptionKey_imported(d)
ViewDecrypt   == \E decrypted \in BOOLEAN : handleViewFile_decrypted(decrypted)
ViewReturn    == handleViewFile_returned

\* Concurrent share calls of one patient.
ShareNext ==
  \/ Upload \/ PatientGrant
  \/ ShareStart \/ ShareUpload \/ ShareStore \/ ShareReturn

SpecShare == Init /\ [][ShareNext]_vars

\* One share call at a time against the provider's page, with grants and
\* revocations in between.
RecoverNext ==
  \/ Upload \/ PatientGrant \/ PatientRevoke
  \/ ShareOnce \/ ShareUpload \/ ShareStore \/ ShareReturn
  \/ PageLoad \/ ViewStart \/ ViewKeyHash \/ ViewKeyBlob \/ ViewImport \/ ViewDecrypt \/ ViewReturn

SpecRecover == Init /\ [][RecoverNext]_vars

\* The record owner's own transactions as time passes: uploads, grants with a
\* short or a long lease, revocations and key pointers for the provider.
OwnerGrant == /\ ~legacyDeployed
              /\ \E s \in Owners, p \in Readers, r \in RecordIds, e \in Expiries :
                   grantConsent(s, p, r, "care", e)
              /\ UNCHANGED client
OwnerShare == /\ ~legacyDeployed
              /\ \E s \in Owners, r \in RecordIds, p \in Readers, h \in Cids :
                   shareWrappedKeyHash(s, r, p, h)
              /\ UNCHANGED client

OwnerNext == Upload \/ OwnerGrant \/ PatientRevoke \/ OwnerShare \/ Tick

SpecOwner == Init /\ [][OwnerNext]_vars

\* ------------------------------------------- the data-type consent contract
\* SmartContract/contracts/HealthDataContract.sol, the contract behind the
\* data-type consent client: the same storage, but a ConsentRecord names a
\* dataType instead of a recordId.
DataTypes == {"labs"}

legacy_NoConsent == [id |-> 0, patientAddress |-> ZeroAddr, providerAddress |-> ZeroAddr,
                     dataType |-> "", purpose |-> "", expiryDate |-> 0, isActive |-> FALSE]

\* getWrappedKeyHash(recordId, providerAddress) called by sender.
legacy_getWrappedKeyHash(sender, recordId, providerAddress) ==
  IF healthRecords[recordId].id = 0
    THEN Revert("getWrappedKeyHash", sender, "Record does not exist")
  ELSE Ok("getWrappedKeyHash", sender, wrappedKeyIpfsHashes[recordId][providerAddress], <<>>)

\* modifier onlyPatient(msg.sender): msg.sender == msg.sender
legacy_grantConsentCheck(sender, providerAddress, dataType, expiryDateTimestamp) ==
  IF sender # sender THEN "Only patient can perform this action" ELSE ""

legacy_grantConsent(sender, providerAddress, dataType, purpose, expiryDateTimestamp) ==
  LET err == legacy_grantConsentCheck(sender, providerAddress, dataType, expiryDateTimestamp)
      consentId == consentIds + 1
  IN IF err # ""
       THEN /\ ret' = Revert("grantConsent", sender, err)
            /\ UNCHANGED <<ledger, now>>
       ELSE /\ consentIds < MaxConsents
            /\ consentIds' = consentId
            /\ consents' = [consents EXCEPT ![consentId] =
                 [id |-> consentId, patientAddress |-> sender,
                  providerAddress |-> providerAddress, dataType |-> dataType,
                  purpose |-> purpose, expiryDate |-> expiryDateTimestamp,
                  isActive |-> TRUE]]
            /\ ret' = Ok("grantConsent", sender, consentId, <<Event("ConsentGranted", consentId)>>)
            /\ UNCHANGED <<recordIds, healthRecords, wrappedKeyIpfsHashes, now>>

legacy_revokeConsentCheck(sender, consentId) ==
  IF consents[consentId].id = 0 THEN "Consent does not exist."
  ELSE IF consents[consentId].patientAddress # sender
    THEN "Caller is not the patient who granted this consent."
  ELSE ""

legacy_revokeConsent(sender, consentId) ==
  LET err == legacy_revokeConsentCheck(sender, consentId)
  IN IF err # ""
       THEN /\ ret' = Revert("revokeConsent", sender, err)
            /\ UNCHANGED <<ledger, now>>
       ELSE /\ consents' = [consents EXCEPT ![consentId].isActive = FALSE]
            /\ ret' = Ok("revokeConsent", sender, 0, <<Event("ConsentRevoked", consentId)>>)
            /\ UNCHANGED <<consentIds, recordIds, healthRecords, wrappedKeyIpfsHashes, now>>

legacy_uploadRecord(sender, title, description, dataHash) ==
  LET recordId == recordIds + 1
  IN /\ recordIds < MaxRecords
     /\ recordIds' = recordId
     /\ healthRecords' = [healthRecords EXCEPT ![recordId] =
          [id |-> recordId, patientAddress |-> sender, title |-> title,
           description |-> description, dataHash |-> dataHash, dateCreated |-> now]]
     /\ ret' = Ok("uploadRecord", sender, recordId, <<Event("RecordUploaded", recordId)>>)
     /\ UNCHANGED <<consentIds, consents, wrappedKeyIpfsHashes, now>>

legacy_shareWrappedKeyHashCheck(sender, recordId, providerAddress, wrappedKeyIpfsHash) ==
  IF healthRecords[recordId].id = 0 THEN "Record does not exist"
  ELSE IF healthRecords[recordId].patientAddress # sender
    THEN "Only the record owner can share the key hash"
  ELSE IF providerAddress = ZeroAddr THEN "Provider address cannot be zero"
  ELSE IF wrappedKeyIpfsHash = "" THEN "Wrapped key IPFS hash cannot be empty"
  ELSE ""

legacy_shareWrappedKeyHash(sender, recordId, providerAddress, wrappedKeyIpfsHash) ==
  LET err == legacy_shareWrappedKeyHashCheck(sender, recordId, providerAddress, wrappedKeyIpfsHash)
  IN IF err # ""
       THEN /\ ret' = Revert("shareWrappedKeyHash", sender, err)
            /\ UNCHANGED <<ledger, now>>
       ELSE /\ wrappedKeyIpfsHashes' =
                 [wrappedKeyIpfsHashes EXCEPT ![recordId][providerAddress] = wrappedKeyIpfsHash]
            /\ ret' = Ok("shareWrappedKeyHash", sender, 0, <<Event("WrappedKeyShared", recordId)>>)
            /\ UNCHANGED <<consentIds, recordIds, consents, healthRecords, now>>

legacy_Init ==
  /\ consentIds = 0
  /\ recordIds = 0
  /\ consents = [i \in ConsentIds |-> legacy_NoConsent]
  /\ healthRecords = [i \in RecordSlots |-> NoRecord]
  /\ wrappedKeyIpfsHashes = [r \in RecordSlots |-> [a \in AnyAddr |-> ""]]
  /\ now = 0
  /\ ret = Ok("deploy", ZeroAddr, 0, <<>>)
  /\ ClientInit

legacy_Upload == /\ legacyDeployed
                 /\ \E s \in Owners : legacy_uploadRecord(s, "t", "d", "QmData")
                 /\ UNCHANGED client
legacy_Grant  == /\ legacyDeployed
                 /\ \E s \in Owners, p \in Readers, d \in DataTypes, e \in Times :
                      legacy_grantConsent(s, p, d, "care", e)
                 /\ UNCHANGED client
legacy_Revoke == /\ legacyDeployed
                 /\ \E s \in Writers, c \in ConsentIds : legacy_revokeConsent(s, c)
                 /\ UNCHANGED client
legacy_Share  == /\ legacyDeployed
                 /\ \E a \in ShareArgs : legacy_shareWrappedKeyHash(a[1], a[2], a[3], a[4])
                 /\ UNCHANGED client

\* Either contract may be the one deployed; its transactions are the ledger's
\* steps, here the transactions mined at one block timestamp.
DeployedNext ==
  \/ Upload \/ Grant \/ Revoke \/ Share
  \/ legacy_Upload \/ legacy_Grant \/ legacy_Revoke \/ legacy_Share

SpecDeployed == (Init \/ legacy_Init) /\ [][DeployedNext]_vars

\* ------------------------------------------------------- consent lifecycle

\* consent i and consent j were granted by the same patient to the same
\* provider for the same record
sameGrant(c, d) ==
  /\ c.patientAddress = d.patientAddress
  /\ c.providerAddress = d.providerAddress
  /\ c.recordId = d.recordId

\* C3: a consent is created active; an existing consent changes only by a
\* successful revokeConsent sent by its patient, which turns isActive from true
\* to false and touches no other field; it is never reactivated and never
\* deleted.
C3_ConsentLifecycle ==
  [][\A i \in 1..MaxConsents :
       /\ (consents[i].id = 0 /\ consents'[i].id # 0) =>
            /\ consents'[i].id = i
            /\ consents'[i].isActive
            /\ ret'.op = "grantConsent" /\ ret'.ok
       /\ consents[i].id # 0 =>
            \/ consents'[i] = consents[i]
            \/ /\ consents[i].isActive
               /\ consents'[i] = [consents[i] EXCEPT !.isActive = FALSE]
               /\ ret'.op = "revokeConsent" /\ ret'.ok
               /\ ret'.sender = consents[i].patientAddress]_vars

\* A revoked consent sits next to a later grant, after time has passed.
C3_Witness ==
  /\ consents[1].id = 1 /\ ~consents[1].isActive
  /\ consents[2].id = 2 /\ consents[2].isActive
  /\ now > 0

\* C4: two consents for the same (patient, provider, record) are independent:
\* granting the second leaves the first as it was, revoking one changes only
\* that consent's isActive, and while the other is active and unexpired the
\* provider's getWrappedKeyHash still returns the stored pointer.
C4_GrantIsolation ==
  [][\A i, j \in 1..MaxConsents :
       (i # j /\ consents'[i].id # 0 /\ consents'[j].id # 0
          /\ sameGrant(consents'[i], consents'[j])) =>
         /\ (consents[i].id # 0 /\ consents[j].id = 0) => consents'[i] = consents[i]
         /\ (consents[i].id # 0 /\ consents[j].id # 0 /\ consents'[i] # consents[i]) =>
              /\ consents'[i] = [consents[i] EXCEPT !.isActive = FALSE]
              /\ consents'[j] = consents[j]
         /\ (consents'[j].isActive /\ now' <= consents'[j].expiryDate) =>
              LET read == (getWrappedKeyHash(consents[j].providerAddress, consents[j].recordId,
                                             consents[j].providerAddress))'
              IN /\ read.ok
                 /\ read.val =
                      wrappedKeyIpfsHashes'[consents'[j].recordId][consents'[j].providerAddress]]_vars

\* The first of two like consents was just revoked, the second is still good
\* and a key pointer is stored.
C4_Witness ==
  /\ consents[1].id = 1 /\ consents[2].id = 2
  /\ sameGrant(consents[1], consents[2])
  /\ ~consents[1].isActive
  /\ consents[2].isActive /\ now <= consents[2].expiryDate
  /\ ret.op = "revokeConsent" /\ ret.ok
  /\ wrappedKeyIpfsHashes[consents[2].recordId][consents[2].providerAddress] # ""

\* C8: revokeConsent reverts with "Does not exist" for an unknown id and with
\* "Caller is not the patient" for any sender other than the consent's patient,
\* leaving the ledger as it was; only the patient ever deactivates a consent.
C8_RevokeRejections ==
  [][/\ \A s \in Addr, c \in ConsentIds :
          revokeConsent(s, c) =>
            /\ consents[c].id = 0 =>
                 /\ ret' = Revert("revokeConsent", s, "Consent: Does not exist.")
                 /\ UNCHANGED ledger
            /\ (consents[c].id # 0 /\ consents[c].patientAddress # s) =>
                 /\ ret' = Revert("revokeConsent", s, "Consent: Caller is not the patient")
                 /\ UNCHANGED ledger
     /\ \A i \in 1..MaxConsents :
          (consents[i].isActive /\ ~consents'[i].isActive) =>
            ret'.sender = consents[i].patientAddress]_vars

\* The provider tried to revoke an existing active consent and was refused.
C8_Witness ==
  /\ ret = Revert("revokeConsent", "B", "Consent: Caller is not the patient")
  /\ \E i \in 1..MaxConsents : consents[i].id # 0 /\ consents[i].isActive
                                 /\ consents[i].patientAddress # "B"

\* C10: on either contract a stored key pointer changes only in a successful
\* shareWrappedKeyHash sent by the owner of that record; a call by anyone else,
\* for a record that does not exist, with the zero provider address or with an
\* empty pointer reverts and leaves every pointer as it was.
C10_PointerWrites ==
  [][/\ \A r \in RecordIds, a \in AnyAddr :
          wrappedKeyIpfsHashes'[r][a] # wrappedKeyIpfsHashes[r][a] =>
            /\ ret'.op = "shareWrappedKeyHash" /\ ret'.ok
            /\ recordExists(r)
            /\ ret'.sender = healthRecords[r].patientAddress
     /\ (ret'.op = "shareWrappedKeyHash" /\ now' = now) =>
          \A r \in RecordIds, p \in AnyAddr, h \in Pointers :
            ((IF legacyDeployed THEN legacy_shareWrappedKeyHash(ret'.sender, r, p, h)
                                ELSE shareWrappedKeyHash(ret'.sender, r, p, h))
               /\ (~recordExists(r) \/ healthRecords[r].patientAddress # ret'.sender
                     \/ p = ZeroAddr \/ h = "")) =>
              /\ ~ret'.ok
              /\ UNCHANGED wrappedKeyIpfsHashes]_vars

\* A pointer is stored and the provider's own attempt to write one was refused.
C10_Witness ==
  /\ ret.op = "shareWrappedKeyHash" /\ ret.sender = "B" /\ ~ret.ok
  /\ \E r \in RecordIds : recordExists(r) /\ healthRecords[r].patientAddress # "B"
  /\ \E r \in RecordIds : wrappedKeyIpfsHashes[r]["B"] # ""

\* ------------------------------------------------------------ key read gate

\* A consent that lets providerAddress read the key of recordId now. A
\* data-type consent names no record; it is taken to cover every record of its
\* patient.
consentCovers(c, recordId, providerAddress) ==
  /\ c.id # 0
  /\ c.patientAddress = healthRecords[recordId].patientAddress
  /\ c.providerAddress = providerAddress
  /\ (legacyDeployed \/ c.recordId = recordId)
  /\ c.isActive
  /\ now <= c.expiryDate

\* The deployed contract's getWrappedKeyHash.
deployed_getWrappedKeyHash(sender, recordId, providerAddress) ==
  IF legacyDeployed THEN legacy_getWrappedKeyHash(sender, recordId, providerAddress)
                    ELSE getWrappedKeyHash(sender, recordId, providerAddress)

\* C1: getWrappedKeyHash(recordId, providerAddress) returns the stored pointer
\* exactly when the caller is providerAddress and some consent of the record's
\* owner to that provider for that record is active and unexpired; every other
\* call fails.
C1_KeyReadGate ==
  \A s \in Addr, r \in RecordIds, p \in AnyAddr :
    LET read == deployed_getWrappedKeyHash(s, r, p)
    IN /\ read.ok <=> (s = p /\ \E i \in 1..MaxConsents : consentCovers(consents[i], r, p))
       /\ read.ok => read.val = wrappedKeyIpfsHashes[r][p]

\* ------------------------------------------------------- grant preconditions

\* C7: grantConsent succeeds only when the record exists, the caller owns it
\* and the expiry is later than now; when any of the three fails the call
\* reverts with the error of a failed check, creates no consent and leaves the
\* consent counter as it was.
C7_GrantPreconditions ==
  [][IF legacyDeployed
       THEN \A s \in Addr, p \in AnyAddr, d \in DataTypes, e \in Times :
              (legacy_grantConsent(s, p, d, "care", e) /\ ~(e > now)) =>
                /\ ~ret'.ok
                /\ UNCHANGED <<consents, consentIds>>
       ELSE \A s \in Addr, p \in AnyAddr, r \in RecordIds, e \in Times :
              grantConsent(s, p, r, "care", e) =>
                LET exists  == recordExists(r)
                    owns    == healthRecords[r].patientAddress = s
                    future  == e > now
                IN /\ ret'.ok => (exists /\ owns /\ future)
                   /\ ~(exists /\ owns /\ future) =>
                        /\ ~ret'.ok
                        /\ UNCHANGED <<consents, consentIds>>
                        /\ ret'.err = "Record: Does not exist" => ~exists
                        /\ ret'.err = "Consent: Caller does not own record" => ~owns
                        /\ ret'.err = "Consent: Expiry must be in the future" => ~future
                        /\ p # ZeroAddr =>
                             ret'.err \in {"Record: Does not exist",
                                           "Consent: Caller does not own record",
                                           "Consent: Expiry must be in the future"}]_vars

\* -------------------------------------------------------- repeated revocation

\* C9: revokeConsent by the patient on a consent that is already inactive is
\* not an error, leaves the ledger as it was and emits no ConsentRevoked event.
C9_RevokeIdempotent ==
  [][\A c \in 1..MaxConsents :
       (consents[c].id # 0 /\ ~consents[c].isActive
          /\ revokeConsent(consents[c].patientAddress, c)) =>
         /\ ret'.ok
         /\ UNCHANGED ledger
         /\ ret'.events = <<>>]_vars

\* What the contract does keep of C9: no error and no state change.
C9_NoErrorNoChange ==
  [][\A c \in 1..MaxConsents :
       (consents[c].id # 0 /\ ~consents[c].isActive
          /\ revokeConsent(consents[c].patientAddress, c)) =>
         /\ ret'.ok
         /\ UNCHANGED ledger]_vars

\* ---------------------------------------------------------- share and recover

\* Share calls s and t are for the same (record, provider).
samePair(s, t) ==
  /\ shareCall[s].recordId = shareCall[t].recordId
  /\ shareCall[s].providerAddress = shareCall[t].providerAddress

\* Share call s has its transaction mined in this step.
commits(s) == shareCall[s].pc = "store" /\ shareCall'[s].pc = "done"

\* C5: when a share call's ledger write commits, the pointer of its (record,
\* provider) is the cid that call uploaded, whatever another call for the same
\* pair did before, in whatever order the two blobs were uploaded: the pointer
\* of the earlier call is no longer what the ledger read returns. No other step
\* changes a pointer, so after both calls are done the one stored pointer is
\* that of the write that committed last.
C5_LastWriteWins ==
  [][/\ \A s \in ShareIds :
          commits(s) =>
            LET r == shareCall[s].recordId
                p == shareCall[s].providerAddress
                read == (getWrappedKeyHash(p, r, p))'
            IN /\ wrappedKeyIpfsHashes'[r][p] = shareCall[s].cid
               /\ ipfs'[shareCall[s].cid] = toHex(shareCall[s].key)
               /\ read.ok => read.val = shareCall[s].cid
               /\ \A t \in ShareIds \ {s} :
                    (shareCall[t].pc = "done" /\ samePair(s, t)
                       /\ shareCall[t].cid # shareCall[s].cid) =>
                      /\ wrappedKeyIpfsHashes'[r][p] # shareCall[t].cid
                      /\ read.ok => read.val # shareCall[t].cid
     /\ wrappedKeyIpfsHashes' # wrappedKeyIpfsHashes => \E s \in ShareIds : commits(s)]_vars

\* Both calls are done for the same pair with different keys, the provider has
\* consent, and the ledger returns the pointer of one of them.
C5_Witness ==
  /\ shareCall["s1"].pc = "done" /\ shareCall["s2"].pc = "done"
  /\ samePair("s1", "s2")
  /\ shareCall["s1"].cid # shareCall["s2"].cid
  /\ getWrappedKeyHash("B", 1, "B").ok
  /\ getWrappedKeyHash("B", 1, "B").val \in {shareCall["s1"].cid, shareCall["s2"].cid}

\* The provider's page reads the ledger in this step.
readsKeyHash == viewCall.pc = "keyHash" /\ viewCall'.pc # "keyHash"

\* The provider's page gets the wallet's answer and imports the key in this step.
importsKey == viewCall.pc = "wallet" /\ viewCall'.pc # "wallet"

\* eth_decrypt answers that leave the fetched hex text in use.
passThrough(hexKeyDataString) ==
  {d \in walletOutcomes(hexKeyDataString) :
     \/ d.threw
     \/ d.result = <<>>
     \/ toLowerCase(strip0x(d.result)) = toLowerCase(strip0x(hexKeyDataString))}

\* C2: with a covering consent and a shared key the page's recovery is let
\* through by the ledger and, when the blob is fetched and the wallet leaves
\* the text alone, ends with the shared key. Whenever the ledger is asked
\* while no consent covers (record, provider), the recovery fails and no key
\* comes back, although the call began under a cached access map that said
\* yes; no key ever comes back from a failed call.
C2_RevokeEndsRecovery ==
  [][/\ (viewCall.pc = "idle" /\ viewCall'.pc = "keyHash") => recordAccessMap[viewCall'.recordId]
     /\ readsKeyHash =>
          LET r == viewCall.recordId
              covered == \E i \in 1..MaxConsents : consentCovers(consents[i], r, "B")
          IN /\ ~covered => (viewCall'.pc = "failed" /\ viewCall'.key = NoKey)
             /\ (covered /\ wrappedKeyIpfsHashes[r]["B"] # "") =>
                  /\ viewCall'.pc = "keyBlob"
                  /\ viewCall'.hash = wrappedKeyIpfsHashes[r]["B"]
     /\ (viewCall.pc = "keyBlob" /\ ipfs[viewCall.hash] # NoBlob
           /\ getDecryptionKey_fetched(TRUE)) =>
          viewCall'.pc = "wallet"
     /\ importsKey =>
          \A d \in passThrough(viewCall.hex) :
            getDecryptionKey_imported(d) =>
              /\ viewCall'.pc = "done"
              /\ toHex(viewCall'.key) = ipfs[viewCall.hash]
     /\ (viewCall'.key # NoKey /\ viewCall'.key # viewCall.key) => viewCall'.pc = "done"]_vars

\* The consent was revoked after the page computed its access map; the page
\* still says yes, the pointer is still stored, and the recovery was refused.
C2_Witness ==
  /\ recordAccessMap[1]
  /\ consents[1].id = 1 /\ ~consents[1].isActive
  /\ ~\E i \in 1..MaxConsents : consentCovers(consents[i], 1, "B")
  /\ wrappedKeyIpfsHashes[1]["B"] # ""
  /\ viewCall.pc = "failed" /\ viewCall.step = "Fetching key location hash"

\* C6: when the stored pointer is the one a successful share of key k wrote
\* and a consent covers the provider, the recovery ends with a key whose raw
\* bytes are those of k, whatever eth_decrypt does.
C6_KeyRoundTrip ==
  [][importsKey =>
     \A s \in ShareIds, d \in walletOutcomes(viewCall.hex) :
       (/\ shareCall[s].pc = "done"
        /\ shareCall[s].recordId = viewCall.recordId
        /\ shareCall[s].cid = viewCall.hash
        /\ wrappedKeyIpfsHashes[viewCall.recordId]["B"] = viewCall.hash
        /\ \E i \in 1..MaxConsents : consentCovers(consents[i], viewCall.recordId, "B")
        /\ getDecryptionKey_imported(d)) =>
         /\ viewCall'.pc = "done"
         /\ viewCall'.key = shareCall[s].key]_vars

\* What holds of C6: the round trip when the wallet leaves the text alone.
C6_RoundTripPassThrough ==
  [][importsKey =>
     \A s \in ShareIds, d \in passThrough(viewCall.hex) :
       (/\ shareCall[s].pc = "done"
        /\ shareCall[s].recordId = viewCall.recordId
        /\ shareCall[s].cid = viewCall.hash
        /\ getDecryptionKey_imported(d)) =>
         /\ viewCall'.pc = "done"
         /\ viewCall'.key = shareCall[s].key]_vars

\* -------------------------------------------------- consent references record

\* C11: every stored consent references a record that exists and whose owner
\* is the consent's patient. A data-type consent names no record; for it the
\* reference is read as some existing record of its patient.
C11_ConsentReferencesRecord ==
  \A i \in 1..MaxConsents :
    consents[i].id # 0 =>
      IF legacyDeployed
        THEN \E r \in RecordIds :
               recordExists(r) /\ healthRecords[r].patientAddress = consents[i].patientAddress
        ELSE /\ recordExists(consents[i].recordId)
             /\ healthRecords[consents[i].recordId].patientAddress = consents[i].patientAddress

\* ------------------------------------------------------ consent status pages
\* ConsentList.tsx and viewConsent.tsx classify one consent at the client's
\* clock, Math.floor(Date.now() / 1000), taken to be the ledger's now. Addresses
\* are compared after toLowerCase(), that is as accounts.

\* getConsentStatus looking at the expiry date first.
getConsentStatus_expiryFirst(consent) ==
  IF consent.expiryDate < now THEN "Expired"
  ELSE IF ~consent.isActive THEN "Revoked"
  ELSE "Active"

\* ConsentList.getConsentStatus(consent).text
getConsentStatus(consent) ==
  IF ~consent.isActive THEN "Revoked"
  ELSE IF consent.expiryDate < now THEN "Expired"
  ELSE "Active"

\* viewConsent.isConsentValidNow(consent, currentProviderAddress); NoConsent is null.
isConsentValidNow(consent, currentProviderAddress) ==
  /\ consent # NoConsent
  /\ consent.isActive
  /\ consent.expiryDate >= now
  /\ consent.providerAddress = currentProviderAddress

\* getConsentById(consentId), a view anyone may call.
getConsentById(sender, consentId) ==
  IF consents[consentId].id = 0
    THEN Revert("getConsentById", sender, "Consent: Does not exist.")
    ELSE Ok("getConsentById", sender, consents[consentId], <<>>)

\* contractService.getConsentDetailsById: the parsed consent, or null (NoConsent)
\* when the consent is not found and when the call fails for any other reason.
getConsentDetailsById(sender, consentId, reachable) ==
  LET read == getConsentById(sender, consentId)
  IN IF reachable /\ read.ok THEN read.val ELSE NoConsent

\* handleFetchConsent testing isActive before the provider address.
handleFetchConsent_revokedFirst(user, consentId, reachable) ==
  LET details == getConsentDetailsById(user, consentId, reachable)
      shown(e, m) == [consentDetails |-> details, error |-> e, infoMessage |-> m]
  IN IF consentId <= 0
       THEN [consentDetails |-> NoConsent,
             error |-> "Please enter a valid Consent ID (a positive number).",
             infoMessage |-> ""]
     ELSE IF details = NoConsent THEN shown("Consent not found.", "")
     ELSE IF ~details.isActive
       THEN shown("", "Note: This consent has been revoked by the patient.")
     ELSE IF details.providerAddress # user
       THEN shown("", "Note: This consent was granted to a different provider address.")
     ELSE IF details.expiryDate < now
       THEN shown("", "Note: This consent has expired.")
     ELSE shown("", "Consent details loaded successfully.")

\* What handleFetchConsent leaves on the page for the logged-in provider.
handleFetchConsent(user, consentId, reachable) ==
  LET details == getConsentDetailsById(user, consentId, reachable)
      shown(e, m) == [consentDetails |-> details, error |-> e, infoMessage |-> m]
  IN IF consentId <= 0
       THEN [consentDetails |-> NoConsent,
             error |-> "Please enter a valid Consent ID (a positive number).",
             infoMessage |-> ""]
     ELSE IF details = NoConsent THEN shown("Consent not found.", "")
     ELSE IF details.providerAddress # user
       THEN shown("", "Note: This consent was granted to a different provider address.")
     ELSE IF ~details.isActive
       THEN shown("", "Note: This consent has been revoked by the patient.")
     ELSE IF details.expiryDate < now
       THEN shown("", "Note: This consent has expired.")
     ELSE shown("", "Consent details loaded successfully.")

\* C12: a revoked consent is denied and reported as revoked at every time,
\* before and after its expiry date: the client-side check and the validity
\* flag are false, the list shows Revoked and the provider it was granted to is
\* told it was revoked.
C12_RevokedIsRevoked ==
  \A i \in 1..MaxConsents :
    (consents[i].id # 0 /\ ~consents[i].isActive) =>
      /\ getConsentStatus(consents[i]) = "Revoked"
      /\ handleFetchConsent(consents[i].providerAddress, i, TRUE).infoMessage
           = "Note: This consent has been revoked by the patient."
      /\ ~isConsentValidNow(consents[i], consents[i].providerAddress)
      /\ ~checkProviderAccessForRecordClientSide(consents[i].recordId,
            consents[i].providerAddress, {consents[i]})

\* A revoked consent whose expiry date has passed as well.
C12_Witness ==
  \E i \in 1..MaxConsents :
    /\ consents[i].id # 0 /\ ~consents[i].isActive
    /\ consents[i].expiryDate < now
    /\ ret.op = "revokeConsent" /\ ret.ok

\* ------------------------------------------------------------ expiry boundary

\* C13: an active consent with expiry date T allows access up to and including
\* now = T and is denied as Expired from now = T + 1 on, in the client-side
\* check, in the status shown and in the contract's checkRecordSpecificAccess
\* (where only another valid consent for the same grant can still allow).
C13_ExpiryBoundary ==
  \A i \in 1..MaxConsents :
    (consents[i].id # 0 /\ consents[i].isActive) =>
      LET c == consents[i]
          clientAllows == checkProviderAccessForRecordClientSide(c.recordId, c.providerAddress, {c})
          chainAllows  == checkRecordSpecificAccess(c.patientAddress, c.providerAddress, c.recordId)
          otherValid   == \E j \in 1..MaxConsents :
                            /\ j # i /\ consents[j].id # 0 /\ sameGrant(consents[j], c)
                            /\ consents[j].isActive /\ now <= consents[j].expiryDate
      IN /\ now <= c.expiryDate =>
              /\ clientAllows /\ chainAllows
              /\ getConsentStatus(c) = "Active"
              /\ isConsentValidNow(c, c.providerAddress)
         /\ now >= c.expiryDate + 1 =>
              /\ ~clientAllows
              /\ ~otherValid => ~chainAllows
              /\ getConsentStatus(c) = "Expired"
              /\ ~isConsentValidNow(c, c.providerAddress)
              /\ handleFetchConsent(c.providerAddress, i, TRUE).infoMessage
                   = "Note: This consent has expired."

\* One second after the expiry date of the only consent, still active.
C13_Witness ==
  /\ consentIds = 1
  /\ consents[1].isActive
  /\ now = consents[1].expiryDate + 1
  /\ ~checkRecordSpecificAccess(consents[1].patientAddress, consents[1].providerAddress,
                                 consents[1].recordId)

\* ------------------------------------------------- page decision and the gate

\* C14: for every existing record and every provider, the decision the
\* provider's page computes from the consents the ledger lists for (owner,
\* provider) is the decision of the consent check inside getWrappedKeyHash
\* called by that provider at the same time.
C14_PageAgreesWithGate ==
  \A p \in Addr, r \in RecordIds :
    recordExists(r) =>
      (checkProviderAccessForRecordClientSide(r, p,
         getConsentsForProviderByPatient(healthRecords[r].patientAddress, p))
       <=> getWrappedKeyHash(p, r, p).ok)

\* The gate lets the provider through on a second consent while the first
\* consent for the same record is revoked.
C14_Witness ==
  /\ consentIds = 2
  /\ sameGrant(consents[1], consents[2])
  /\ ~consents[1].isActive
  /\ getWrappedKeyHash(consents[2].providerAddress, consents[2].recordId,
                        consents[2].providerAddress).ok

\* ------------------------------------------------------- deny reason priority

keyReadCause(p, r) ==
  IF ~recordExists(r) THEN "record not found"
  ELSE IF ~getWrappedKeyHash(p, r, p).ok THEN "access denied"
  ELSE IF wrappedKeyIpfsHashes[r][p] = "" THEN "pointer not found"
  ELSE "pointer found"

\* What the call hands back after that read: whether it goes on, the key it
\* returns (null when it ends there) and the step it reports.
keyReadResult(p, r) ==
  LET call == keyLocationFetched([IdleView EXCEPT !.pc = "keyHash", !.recordId = r,
                                                  !.step = "Fetching key location hash"], p)
  IN [pc |-> call.pc, key |-> call.key, step |-> call.step]

\* C16: key recovery that the ledger denies, key recovery that is allowed but
\* finds no pointer, and key recovery for a record that does not exist end
\* with results the requester can tell apart.
C16_DeniedIsNotNotFound ==
  \A p1, p2 \in Addr, r1, r2 \in RecordIds :
    keyReadCause(p1, r1) # keyReadCause(p2, r2) => keyReadResult(p1, r1) # keyReadResult(p2, r2)

\* ------------------------------------------------------------- ConsentForm
\* The patient's grant form. Its text inputs are modelled as texts: an address
\* is a sequence of characters, a date is one of the strings the date input
\* can hold.
DayLen      == 2                       \* seconds in a day, on the scale of MaxTime
MsPerSecond == 1000

\* The address text of an account, and texts that are no address.
addressText(a) ==
  <<"0", "x">> \o [i \in 1..40 |-> IF a = "B" THEN "b" ELSE IF a = "C" THEN "c"
                                    ELSE IF a = "A" THEN "a" ELSE "0"]
MalformedAddresses ==
  {SubSeq(addressText("B"), 3, 42), SubSeq(addressText("B"), 1, 41),
   SubSeq(addressText("B"), 1, 41) \o <<"z">>}
FormAddresses == {<<>>, addressText("B"), addressText(ZeroAddr)} \cup MalformedAddresses

\* /^0x[a-fA-F0-9]{40}$/.test(text)
isAddressText(text) ==
  /\ Len(text) = 42
  /\ text[1] = "0" /\ text[2] = "x"
  /\ \A i \in 3..42 : hexValue(text[i]) >= 0

\* The account an address text is sent as.
accountOf(text) == CHOOSE a \in AnyAddr : addressText(a) = toLowerCase(text)

\* The values of the date input: empty, or a calendar day counted from the epoch.
DateTexts == <<"1970-01-01", "1970-01-02">>
FormDates == {""} \cup {DateTexts[d] : d \in 1..Len(DateTexts)}

\* new Date(text).getTime(): UTC midnight of the day, in milliseconds; the
\* empty text gives NaN.
isNaNDate(text) == \A d \in 1..Len(DateTexts) : DateTexts[d] # text
getTime(text) ==
  (CHOOSE d \in 1..Len(DateTexts) : DateTexts[d] = text) * DayLen * MsPerSecond
    - DayLen * MsPerSecond

\* Offsets of the browser's time zone from UTC, in seconds.
TimeZones == {0 - 1, 0, 1}

\* new Date().setHours(0, 0, 0, 0): the last local midnight, in milliseconds.
todayTimestamp(tz) == (((now + tz) \div DayLen) * DayLen - tz) * MsPerSecond

\* The validation at the head of handleSubmit: the message it sets, "" when
\* the inputs pass. selectedRecordId 0 stands for no record selected.
handleSubmitError(providerAddress, selectedRecordId, purpose, expiryDate, tz) ==
  IF providerAddress = <<>> \/ selectedRecordId = 0 \/ purpose = "" \/ expiryDate = ""
    THEN "All fields are required, including selecting a record."
  ELSE IF ~isAddressText(providerAddress)
    THEN "Invalid provider Ethereum address format (must start with 0x and be 42 chars long)."
  ELSE IF isNaNDate(expiryDate) \/ getTime(expiryDate) < todayTimestamp(tz)
    THEN "Expiry date must be today or a future date."
  ELSE ""

\* contractService.grantConsent: the date becomes Unix seconds and the
\* transaction is sent.
client_grantConsent(sender, providerAddress, recordId, purpose, expiryDate) ==
  LET expiryDateTimestamp == getTime(expiryDate) \div MsPerSecond
  IN grantConsent(sender, accountOf(providerAddress), recordId, purpose, expiryDateTimestamp)

\* handleSubmit: inputs that fail the validation stay in the form, the others
\* go to the ledger.
handleSubmit(sender, providerAddress, selectedRecordId, purpose, expiryDate, tz) ==
  IF handleSubmitError(providerAddress, selectedRecordId, purpose, expiryDate, tz) # ""
    THEN UNCHANGED vars
    ELSE /\ client_grantConsent(sender, providerAddress, selectedRecordId, purpose, expiryDate)
         /\ UNCHANGED client

\* The patient submits the form; the record is one of the records listed for
\* them, or none.
FormPurposes == {"", "care"}
FormSubmit ==
  /\ ~legacyDeployed
  /\ \E s \in Owners, a \in FormAddresses, d \in FormDates, tz \in TimeZones, u \in FormPurposes :
       \E r \in {0} \cup {x \in RecordIds : recordExists(x) /\ healthRecords[x].patientAddress = s} :
         handleSubmit(s, a, r, u, d, tz)

FormNext == Upload \/ FormSubmit \/ PatientRevoke \/ Tick

SpecForm == Init /\ [][FormNext]_vars

\* C17: a grant whose expiry, as sent to the ledger in Unix seconds, is not
\* later than now, or whose provider address is not an address, is rejected by
\* the form's validation and reaches the ledger in no call.
C17_ValidationBeforeLedger ==
  [][\A s \in Owners, a \in {addressText("B")} \cup MalformedAddresses, r \in RecordIds \ {0},
       d \in FormDates \ {""}, tz \in TimeZones :
       (/\ handleSubmit(s, a, r, "care", d, tz)
        /\ \/ ~isAddressText(a)
           \/ ~(getTime(d) \div MsPerSecond > now)) =>
         /\ handleSubmitError(a, r, "care", d, tz) # ""
         /\ UNCHANGED <<ledger, ret>>]_vars

\* ------------------------------------------------------------ failed reads

\* getPatientConsents(patientAddress): the consents the patient granted.
getPatientConsents(patientAddress) ==
  {consents[i] : i \in {j \in 1..consentIds : consents[j].patientAddress = patientAddress}}

\* contractService.getPatientConsents and getConsentsForProviderByPatient: the
\* parsed list, and the empty list when the call throws (ledger unreachable).
client_getPatientConsents(patientAddress, reachable) ==
  IF reachable THEN getPatientConsents(patientAddress) ELSE {}

client_getConsentsForProviderByPatient(patientAddress, providerAddress, reachable) ==
  IF reachable THEN getConsentsForProviderByPatient(patientAddress, providerAddress) ELSE {}

\* C18: what the consent list reads hand back when the ledger cannot be
\* reached differs from what they hand back for any successful read, an empty
\* one included.
C18_FailedReadIsNotEmpty ==
  \A o, q \in Addr, p \in Addr :
    /\ client_getPatientConsents(o, FALSE) # client_getPatientConsents(q, TRUE)
    /\ client_getConsentsForProviderByPatient(o, p, FALSE)
         # client_getConsentsForProviderByPatient(q, p, TRUE)

\* --------------------------------------------------- order of the share steps

\* C19: a shareKeyForRecord call moves export/encode -> upload -> ledger write
\* and never back; it reaches the ledger write only with the cid its upload
\* returned for the hex of its key; the ledger is written only by a call at
\* its write step, with that call's record, provider and cid, after which the
\* call is over; a failed export or upload ends the call as failed with the
\* ledger untouched.
C19_ShareStepOrder ==
  [][/\ \A s \in ShareIds :
          LET before == shareCall[s]
              after  == shareCall'[s]
          IN /\ after.pc # before.pc =>
                  \/ before.pc = "idle" /\ after.pc \in {"upload", "failed"}
                  \/ before.pc = "upload" /\ after.pc \in {"store", "failed"}
                  \/ before.pc = "store" /\ after.pc \in {"done", "failed"}
                  \/ before.pc \in {"done", "failed"} /\ after.pc = "idle"
             /\ after.pc = "upload" => after.blob = toHex(after.key) /\ Len(after.key) > 0
             /\ after.pc = "store" =>
                  /\ after.cid # "" /\ after.cid = cidOf(after.blob)
                  /\ ipfs'[after.cid] = after.blob
             /\ (before.pc \in {"idle", "upload"} /\ after.pc = "failed") =>
                  UNCHANGED <<ledger, ret>>
             /\ after.pc = "done" => before.pc \in {"store", "done"}
     /\ (\/ wrappedKeyIpfsHashes' # wrappedKeyIpfsHashes
         \/ ret' # ret /\ ret'.op = "shareWrappedKeyHash") =>
          \E s \in ShareIds :
            /\ shareCall[s].pc = "store" /\ shareCall'[s].pc \in {"done", "failed"}
            /\ shareCall[s].cid # ""
            /\ shareWrappedKeyHash(shareCall[s].sender, shareCall[s].recordId,
                                   shareCall[s].providerAddress, shareCall[s].cid)
            /\ shareCall'[s].pc = "done" <=> ret'.ok]_vars

\* One call ended at its upload and never wrote; the other ran through and
\* its cid is the stored pointer.
C19_Witness ==
  /\ shareCall["s1"].pc = "failed" /\ shareCall["s1"].step = "Uploading hex key blob to IPFS"
  /\ shareCall["s2"].pc = "done"
  /\ wrappedKeyIpfsHashes[shareCall["s2"].recordId][shareCall["s2"].providerAddress]
       = shareCall["s2"].cid

\* ------------------------------------------------- what a failed call returns

\* The boolean a settled shareKeyForRecord call resolves to: true after step 5,
\* false from the catch block, whatever operationStep was.
shareKeyForRecord_result(s) == shareCall[s].pc = "done"

\* C20: two shareKeyForRecord calls that failed at different steps hand back
\* different results to their callers.
C20_ResultNamesFailedStep ==
  \A s, t \in ShareIds :
    (/\ shareCall[s].pc = "failed" /\ shareCall[t].pc = "failed"
     /\ shareCall[s].step # shareCall[t].step)
      => shareKeyForRecord_result(s) # shareKeyForRecord_result(t)

\* ------------------------------------------------- no key, no decryption

\* decryptData is called in this step of the provider's page.
decryptsData ==
  /\ viewCall'.pc # viewCall.pc
  /\ viewCall'.pc = "shown" \/ viewCall'.step = "Decrypting record data..."

\* C21: a key recovery that fails at the pointer read, the blob fetch, the hex
\* test, the decoding or the import ends with no key; a failed view does
\* nothing more than end; decryptData is called, and content shown, only by a
\* view holding the key that a recovery run to its end imported from the blob
\* under the pointer it read.
C21_NoKeyNoDecrypt ==
  [][/\ (viewCall.pc \in {"keyHash", "keyBlob", "wallet"} /\ viewCall'.pc = "failed") =>
          viewCall'.key = NoKey
     /\ (readsKeyHash /\ client_getWrappedKeyHash("B", viewCall.recordId, "B") = "") =>
          viewCall'.pc = "failed"
     /\ (viewCall.pc = "keyBlob" /\ viewCall'.pc # "keyBlob"
           /\ (ipfs[viewCall.hash] = NoBlob \/ ~isHexString(ipfs[viewCall.hash]))) =>
          viewCall'.pc = "failed"
     /\ importsKey =>
          \A d \in walletOutcomes(viewCall.hex) :
            (/\ getDecryptionKey_imported(d)
             /\ importKey(fromHex(strip0x(keyToImportHex(viewCall.hex, d)))) = NoKey) =>
               viewCall'.pc = "failed"
     /\ viewCall.pc = "failed" => viewCall'.pc \in {"failed", "idle"}
     /\ viewCall'.pc = "shown" => viewCall.pc \in {"done", "shown"}
     /\ decryptsData =>
          /\ viewCall.pc = "done"
          /\ viewCall.key # NoKey
          /\ viewCall.hash # "" /\ viewCall.hex = ipfs[viewCall.hash]
          /\ isHexString(viewCall.hex)
          /\ \E d \in walletOutcomes(viewCall.hex) :
               viewCall.key = importKey(fromHex(strip0x(keyToImportHex(viewCall.hex, d))))]_vars

\* A recovery stopped at the decoding of what the wallet answered, with no key.
C21_Witness ==
  /\ viewCall.pc = "failed" /\ viewCall.step = "Decoding final hex key"
  /\ viewCall.key = NoKey /\ viewCall.hex # <<>>

\* ------------------------------------------------------------ the patient's pages
\* The wallet connection, the key session and the two handlers of the
\* patient that write to the ledger, interleaved at their awaits.

\* connectWallet: eth_requestAccounts answers with the selected account.
connectWallet ==
  /\ connectedUser = ZeroAddr
  /\ connectedUser' = selectedAccount
  /\ UNCHANGED <<ledger, now, ret, ipfs, shareCall, recordAccessMap, viewCall>>
  /\ UNCHANGED <<selectedAccount, encryptionKey, keyCacheRef, signatureRequests,
                 writeContractInstance, keyCall, pageCall, fileCall>>

\* disconnectWallet: setUser(null) and nothing else.
disconnectWallet ==
  /\ connectedUser' = ZeroAddr
  /\ UNCHANGED <<encryptionKey, keyCacheRef, signatureRequests, writeContractInstance,
                 keyCall, pageCall>>

\* handleLogout on the profile page.
handleLogout ==
  /\ connectedUser # ZeroAddr
  /\ disconnectWallet
  /\ UNCHANGED <<ledger, now, ret, ipfs, shareCall, recordAccessMap, viewCall, selectedAccount,
                 fileCall>>

\* The wallet switches to another account and handleAccountsChanged runs: an
\* account other than the connected one forces a disconnect.
handleAccountsChanged(newAddress) ==
  /\ newAddress # selectedAccount
  /\ selectedAccount' = newAddress
  /\ IF newAddress # connectedUser
       THEN disconnectWallet
       ELSE UNCHANGED <<connectedUser, encryptionKey, keyCacheRef, signatureRequests,
                        writeContractInstance, keyCall, pageCall>>
  /\ UNCHANGED <<ledger, now, ret, ipfs, shareCall, recordAccessMap, viewCall, fileCall>>

\* getContract: the cached write contract if there is one, otherwise a new
\* one bound to the signer of the selected account; the value is the account
\* that signs what is sent through it.
getContract ==
  IF writeContractInstance # ZeroAddr THEN writeContractInstance ELSE selectedAccount

\* handleUpload up to the key: ensureKeyIsAvailable takes the key of the
\* context, or asks getOrDeriveEncryptionKey for the connected address.
handleUpload ==
  /\ pageCall.pc = "idle"
  /\ connectedUser # ZeroAddr
  /\ IF encryptionKey # NoKey
       THEN /\ pageCall' = [IdlePage EXCEPT !.pc = "encrypt", !.handler = "upload",
                                            !.address = connectedUser, !.key = encryptionKey]
            /\ UNCHANGED <<keyCall, keyCacheRef, signatureRequests>>
       ELSE /\ getOrDeriveEncryptionKey(connectedUser)
            /\ pageCall' = [IdlePage EXCEPT !.pc = "key", !.handler = "upload",
                                            !.address = connectedUser]
  /\ UNCHANGED <<ledger, now, ret, ipfs, shareCall, recordAccessMap, viewCall>>
  /\ UNCHANGED <<fileCall, connectedUser, selectedAccount, encryptionKey, writeContractInstance>>

\* ensureKeyIsAvailable with handleUpload going on whatever came back.
ensureKeyIsAvailable_returned_unchecked ==
  /\ pageCall.pc = "key" /\ pageCall.handler = "upload"
  /\ getOrDeriveEncryptionKey_returned
  /\ encryptionKey' = keyCall.key
  /\ pageCall' = [pageCall EXCEPT !.pc = "encrypt", !.key = keyCall.key]
  /\ UNCHANGED <<ledger, now, ret, ipfs, shareCall, recordAccessMap, viewCall>>
  /\ UNCHANGED <<fileCall, connectedUser, selectedAccount, writeContractInstance>>

\* ensureKeyIsAvailable after getOrDeriveEncryptionKey: a key goes into the
\* context and the upload goes on; null ends the upload.
ensureKeyIsAvailable_returned ==
  /\ pageCall.pc = "key" /\ pageCall.handler = "upload"
  /\ getOrDeriveEncryptionKey_returned
  /\ IF keyCall.key # NoKey
       THEN /\ encryptionKey' = keyCall.key
            /\ pageCall' = [pageCall EXCEPT !.pc = "encrypt", !.key = keyCall.key]
       ELSE /\ pageCall' = [pageCall EXCEPT !.pc = "failed", !.step = "Key preparation failed."]
            /\ UNCHANGED encryptionKey
  /\ UNCHANGED <<ledger, now, ret, ipfs, shareCall, recordAccessMap, viewCall>>
  /\ UNCHANGED <<fileCall, connectedUser, selectedAccount, writeContractInstance>>

\* handleUpload steps 2-5: the file is encrypted under the key and pinned, and
\* uploadRecord is sent through getContract; the pinning may fail, and the
\* wallet may refuse the transaction.
handleUpload_stored(pinned, sent) ==
  /\ pageCall.pc = "encrypt"
  /\ IF pinned /\ sent
       THEN /\ uploadRecord(getContract, "t", "d", "QmData")
            /\ writeContractInstance' = getContract
            /\ pageCall' = [pageCall EXCEPT !.pc = "done", !.recordId = ret'.val,
                                            !.step = "Record successfully created!"]
       ELSE /\ pageCall' = [pageCall EXCEPT !.pc = "failed",
                                            !.step = IF pinned THEN "Storing record metadata"
                                                     ELSE "Uploading encrypted data to IPFS"]
            /\ writeContractInstance' = IF pinned THEN getContract ELSE writeContractInstance
            /\ UNCHANGED <<ledger, now, ret>>
  /\ UNCHANGED <<ipfs, shareCall, recordAccessMap, viewCall>>
  /\ UNCHANGED <<fileCall, connectedUser, selectedAccount, encryptionKey, keyCacheRef,
                 signatureRequests, keyCall>>

\* handleSubmit calling onSuccess for every mined transaction, with or without
\* a consent id read from its events.
handleSubmit_granted_anyReceipt(providerAddress, selectedRecordId, expiryDate, sent, parsed) ==
  /\ pageCall.pc = "idle"
  /\ connectedUser # ZeroAddr
  /\ handleSubmitError(providerAddress, selectedRecordId, "care", expiryDate, 0) = ""
  /\ writeContractInstance' = getContract
  /\ IF sent
       THEN /\ client_grantConsent(getContract, providerAddress, selectedRecordId, "care",
                                   expiryDate)
            /\ pageCall' =
                 IF ret'.ok
                   THEN [IdlePage EXCEPT !.pc = "granted", !.handler = "consent",
                                         !.address = connectedUser,
                                         !.recordId = selectedRecordId,
                                         !.providerAddress = accountOf(providerAddress),
                                         !.consentId = IF parsed THEN ret'.val ELSE 0]
                   ELSE [IdlePage EXCEPT !.pc = "failed", !.handler = "consent",
                                         !.address = connectedUser,
                                         !.step = IF ret'.ok THEN "Failed to retrieve the Consent ID"
                                                  ELSE "Failed to grant consent"]
       ELSE /\ pageCall' = [IdlePage EXCEPT !.pc = "failed", !.handler = "consent",
                                            !.address = connectedUser,
                                            !.step = "Failed to grant consent"]
            /\ UNCHANGED <<ledger, now, ret>>
  /\ UNCHANGED <<ipfs, shareCall, recordAccessMap, viewCall>>
  /\ UNCHANGED <<fileCall, connectedUser, selectedAccount, encryptionKey, keyCacheRef,
                 signatureRequests, keyCall>>

\* ConsentForm.handleSubmit with inputs that pass its validation: grantConsent
\* is sent through getContract; onSuccess is called with the id read from the
\* ConsentGranted event, and not at all when the call throws or no id is read.
handleSubmit_granted(providerAddress, selectedRecordId, expiryDate, sent, parsed) ==
  /\ pageCall.pc = "idle"
  /\ connectedUser # ZeroAddr
  /\ handleSubmitError(providerAddress, selectedRecordId, "care", expiryDate, 0) = ""
  /\ writeContractInstance' = getContract
  /\ IF sent
       THEN /\ client_grantConsent(getContract, providerAddress, selectedRecordId, "care",
                                   expiryDate)
            /\ pageCall' =
                 IF ret'.ok /\ parsed /\ ret'.val > 0
                   THEN [IdlePage EXCEPT !.pc = "granted", !.handler = "consent",
                                         !.address = connectedUser,
                                         !.recordId = selectedRecordId,
                                         !.providerAddress = accountOf(providerAddress),
                                         !.consentId = ret'.val]
                   ELSE [IdlePage EXCEPT !.pc = "failed", !.handler = "consent",
                                         !.address = connectedUser,
                                         !.step = IF ret'.ok THEN "Failed to retrieve the Consent ID"
                                                  ELSE "Failed to grant consent"]
       ELSE /\ pageCall' = [IdlePage EXCEPT !.pc = "failed", !.handler = "consent",
                                            !.address = connectedUser,
                                            !.step = "Failed to grant consent"]
            /\ UNCHANGED <<ledger, now, ret>>
  /\ UNCHANGED <<ipfs, shareCall, recordAccessMap, viewCall>>
  /\ UNCHANGED <<fileCall, connectedUser, selectedAccount, encryptionKey, keyCacheRef,
                 signatureRequests, keyCall>>

\* handleConsentSuccess up to its first await: with a key in the context the
\* share starts at once, otherwise the key is derived first.
handleConsentSuccess ==
  /\ pageCall.pc = "granted"
  /\ IF encryptionKey # NoKey
       THEN /\ shareKeyForRecord("s1", getContract, encryptionKey, pageCall.recordId,
                                 pageCall.providerAddress)
            /\ pageCall' = [pageCall EXCEPT !.pc = "share", !.key = encryptionKey]
            /\ UNCHANGED <<keyCall, keyCacheRef, signatureRequests>>
       ELSE /\ getOrDeriveEncryptionKey(pageCall.address)
            /\ pageCall' = [pageCall EXCEPT !.pc = "key"]
            /\ UNCHANGED <<ledger, now, ret, ipfs, shareCall, recordAccessMap, viewCall>>
  /\ UNCHANGED <<fileCall, connectedUser, selectedAccount, encryptionKey, writeContractInstance>>

\* handleConsentSuccess after getOrDeriveEncryptionKey: a key goes into the
\* context and the share starts; null ends the handler with no share.
handleConsentSuccess_keyed ==
  /\ pageCall.pc = "key" /\ pageCall.handler = "consent"
  /\ getOrDeriveEncryptionKey_returned
  /\ IF keyCall.key # NoKey
       THEN /\ encryptionKey' = keyCall.key
            /\ shareKeyForRecord("s1", getContract, keyCall.key, pageCall.recordId,
                                 pageCall.providerAddress)
            /\ pageCall' = [pageCall EXCEPT !.pc = "share", !.key = keyCall.key]
       ELSE /\ pageCall' = [pageCall EXCEPT !.pc = "failed",
                                            !.step = "Could not prepare your encryption key."]
            /\ UNCHANGED <<ledger, now, ret, ipfs, shareCall, recordAccessMap, viewCall,
                           encryptionKey>>
  /\ UNCHANGED <<fileCall, connectedUser, selectedAccount, writeContractInstance>>

\* handleConsentSuccess after shareKeyForRecord: the consent stays as granted,
\* the page reports whether the key was shared.
handleConsentSuccess_shared ==
  /\ pageCall.pc = "share"
  /\ shareKeyForRecord_returned("s1")
  /\ pageCall' = IF shareKeyForRecord_result("s1")
                   THEN [pageCall EXCEPT !.pc = "done", !.step = "Key sharing completed"]
                   ELSE [pageCall EXCEPT !.pc = "failed",
                                         !.step = "The automatic key sharing process failed."]
  /\ UNCHANGED <<fileCall, connectedUser, selectedAccount, encryptionKey, keyCacheRef,
                 signatureRequests, writeContractInstance, keyCall>>

\* The handler has ended and the page is idle again.
pageCall_returned ==
  /\ pageCall.pc \in {"done", "failed"}
  /\ pageCall' = IdlePage
  /\ UNCHANGED <<ledger, now, ret, ipfs, shareCall, recordAccessMap, viewCall>>
  /\ UNCHANGED <<fileCall, connectedUser, selectedAccount, encryptionKey, keyCacheRef,
                 signatureRequests, writeContractInstance, keyCall>>

\* The patient's browser: connect, switch account, log out, upload records,
\* grant consents through the form and share keys. Upload stands for a record
\* the owner uploaded in an earlier session of the browser.
Connect         == connectWallet
Logout          == handleLogout
AccountsChanged == \E a \in Accounts : handleAccountsChanged(a)
UploadStart     == ~legacyDeployed /\ handleUpload
UploadKeyed     == ensureKeyIsAvailable_returned
UploadStore     == \E pinned, sent \in BOOLEAN : handleUpload_stored(pinned, sent)
KeySigned       == /\ \E signed \in BOOLEAN : getSignature_returned(signed)
                   /\ UNCHANGED <<ledger, now, ret, ipfs, shareCall, recordAccessMap, viewCall>>
                   /\ UNCHANGED <<fileCall, connectedUser, selectedAccount, encryptionKey,
                                  writeContractInstance, pageCall>>
KeyDerived      == /\ \E derived \in BOOLEAN : getOrDeriveEncryptionKey_derived(derived)
                   /\ UNCHANGED <<ledger, now, ret, ipfs, shareCall, recordAccessMap, viewCall>>
                   /\ UNCHANGED <<fileCall, connectedUser, selectedAccount, encryptionKey,
                                  writeContractInstance, pageCall>>
ConsentSubmit   == \E r \in RecordIds \ {0}, sent, parsed \in BOOLEAN :
                     handleSubmit_granted(addressText("B"), r, DateTexts[2], sent, parsed)
ConsentSuccess  == handleConsentSuccess
ConsentKeyed    == handleConsentSuccess_keyed
ConsentShared   == handleConsentSuccess_shared
PageReturn      == pageCall_returned

PatientPageNext ==
  \/ Upload
  \/ Connect \/ Logout \/ AccountsChanged
  \/ UploadStart \/ UploadKeyed \/ UploadStore
  \/ KeySigned \/ KeyDerived
  \/ ConsentSubmit \/ ConsentSuccess \/ ConsentKeyed \/ ConsentShared
  \/ ShareUpload \/ ShareStore
  \/ PageReturn

SpecPatientPage == Init /\ [][PatientPageNext]_vars

\* getOrDeriveEncryptionKey called against the cache of the KeyProvider for
\* the connected user, one call at a time, while accounts connect and
\* disconnect and the cache is cleared in between.
KeyRequest == /\ connectedUser # ZeroAddr
              /\ getOrDeriveEncryptionKey(connectedUser)
              /\ UNCHANGED <<ledger, now, ret, ipfs, shareCall, recordAccessMap, viewCall>>
              /\ UNCHANGED <<fileCall, connectedUser, selectedAccount, encryptionKey,
                             writeContractInstance, pageCall>>
KeyReturn  == /\ getOrDeriveEncryptionKey_returned
              /\ UNCHANGED <<ledger, now, ret, ipfs, shareCall, recordAccessMap, viewCall>>
              /\ UNCHANGED <<fileCall, connectedUser, selectedAccount, encryptionKey,
                             writeContractInstance, pageCall>>
KeyClear   == /\ keyCall.pc \notin {"sign", "derive"}
              /\ clearEncryptionKey
              /\ UNCHANGED <<ledger, now, ret, ipfs, shareCall, recordAccessMap, viewCall>>
              /\ UNCHANGED <<fileCall, connectedUser, selectedAccount, signatureRequests,
                             writeContractInstance, keyCall, pageCall>>

KeyCacheNext ==
  \/ Connect \/ Logout \/ AccountsChanged
  \/ KeyRequest \/ KeySigned \/ KeyDerived \/ KeyReturn \/ KeyClear

SpecKeyCache == Init /\ [][KeyCacheNext]_vars

\* ------------------------------------------------------------- the key cache

\* C22: a getOrDeriveEncryptionKey call that finds a key in the cache returns
\* that key at once, asks the wallet for nothing and leaves the cache as it
\* is; no step taken while the cache holds a key adds a signature request.
C22_CachedKeyIsReturned ==
  [][/\ (keyCall.pc = "idle" /\ keyCall'.pc # "idle" /\ keyCacheRef # NoKey) =>
          /\ keyCall'.pc = "done"
          /\ keyCall'.key = keyCacheRef
          /\ keyCacheRef' = keyCacheRef
          /\ signatureRequests' = signatureRequests
     /\ keyCacheRef # NoKey => signatureRequests' = signatureRequests]_vars

\* A second call has returned the key the first one derived, after one
\* signature request.
C22_Witness ==
  /\ keyCall.pc = "done" /\ keyCall.signature = ZeroAddr
  /\ keyCall.key = keyCacheRef /\ keyCacheRef # NoKey
  /\ signatureRequests = 1

\* ------------------------------------------------------- no key, no default

\* C23: a rejected signature or a failed derivation settles
\* getOrDeriveEncryptionKey with null and an empty cache; a call settles with
\* a key only if that key was in the cache or was derived from the signature
\* it obtained; a handler that got null ends there, with nothing stored in
\* the context, nothing sent to the ledger and no share started; a handler
\* encrypts or shares only with a key.
C23_NoKeyOnFailure ==
  [][/\ (keyCall.pc \in {"sign", "derive"} /\ keyCall'.pc = "failed") =>
          /\ keyCall'.key = NoKey
          /\ keyCacheRef' = NoKey
     /\ (keyCall.pc # "done" /\ keyCall'.pc = "done") =>
          /\ keyCall'.key # NoKey
          /\ \/ keyCall.pc = "idle" /\ keyCall'.key = keyCacheRef
             \/ /\ keyCall.pc = "derive" /\ keyCall.signature = keyCall.userAddress
                /\ keyCall'.key = deriveKeyFromSignature_PBKDF2(keyCall.signature)
     /\ (pageCall.pc = "key" /\ pageCall'.pc # "key" /\ keyCall.key = NoKey) =>
          /\ pageCall'.pc = "failed"
          /\ UNCHANGED <<ledger, ret, ipfs, shareCall, encryptionKey, keyCacheRef>>
     /\ pageCall.pc = "failed" => pageCall'.pc \in {"failed", "idle"}
     /\ pageCall'.pc \in {"encrypt", "share"} => pageCall'.key # NoKey
     /\ shareCall'["s1"] # shareCall["s1"] => pageCall'.key # NoKey]_vars

\* The consent was granted, the signature request was turned down, and the
\* handler ended with no key anywhere and no share.
C23_Witness ==
  /\ pageCall.pc = "failed" /\ pageCall.handler = "consent"
  /\ pageCall.step = "Could not prepare your encryption key."
  /\ encryptionKey = NoKey /\ keyCacheRef = NoKey
  /\ shareCall["s1"] = IdleShare
  /\ \E i \in 1..MaxConsents : consents[i].isActive

\* ------------------------------------------------- whose key the session holds

\* C24: while nobody is connected the context and the cache hold no key, and
\* a handler that encrypts or shares for the address it was started by holds
\* the key derived from that address's signature.
C24_KeyOfConnectedIdentity ==
  /\ connectedUser = ZeroAddr => (encryptionKey = NoKey /\ keyCacheRef = NoKey)
  /\ pageCall.pc \in {"encrypt", "share"} =>
       pageCall.key = deriveKeyFromSignature_PBKDF2(pageCall.address)

\* The second half alone: the key a handler works with is its own address's.
C24_HandlerKeyIsOwn ==
  pageCall.pc \in {"encrypt", "share"} =>
    pageCall.key = deriveKeyFromSignature_PBKDF2(pageCall.address)

\* ------------------------------------------------------ the stored wire format

IV_LENGTH_BYTES == 12                  \* const IV_LENGTH_BYTES
AES_GCM_TAG_BYTES == 16                \* the tag SubtleCrypto appends when no tagLength is given

\* The files a patient picks; the empty one is what encryptData turns down.
Payloads == {<<>>, <<80>>, <<37, 80, 68, 70>>}

\* The nonces getRandomValues can hand out.
IVs == {[i \in 1..IV_LENGTH_BYTES |-> i], [i \in 1..IV_LENGTH_BYTES |-> 200 + i]}

RECURSIVE byteSum(_)
byteSum(bytes) == IF bytes = <<>> THEN 0 ELSE (Head(bytes) + byteSum(Tail(bytes))) % 256

\* The key stream of the cipher: byte i depends on the key and on the nonce.
keyStream(key, iv, i) == (key[((i - 1) % Len(key)) + 1] + iv[((i - 1) % Len(iv)) + 1] + i) % 256

\* The authentication tag: it depends on the key, the nonce and the plain text.
gcmTag(key, iv, data) ==
  [j \in 1..AES_GCM_TAG_BYTES |-> (byteSum(data) + Len(data) + keyStream(key, iv, j) * 3) % 256]

\* crypto.subtle.encrypt({name: 'AES-GCM', iv}, key, data): cipher text, then tag.
subtle_encrypt(iv, key, data) ==
  [i \in 1..Len(data) |-> (data[i] + keyStream(key, iv, i)) % 256] \o gcmTag(key, iv, data)

\* crypto.subtle.decrypt: the plain text, or an OperationError when the input
\* is shorter than a tag or the tag does not match.
subtle_decrypt(iv, key, encryptedData) ==
  IF Len(encryptedData) < AES_GCM_TAG_BYTES
    THEN [ok |-> FALSE, data |-> <<>>]
    ELSE LET n    == Len(encryptedData) - AES_GCM_TAG_BYTES
             body == SubSeq(encryptedData, 1, n)
             tag  == SubSeq(encryptedData, n + 1, Len(encryptedData))
             data == [i \in 1..n |-> (body[i] + 256 - keyStream(key, iv, i)) % 256]
         IN  IF tag = gcmTag(key, iv, data)
               THEN [ok |-> TRUE, data |-> data]
               ELSE [ok |-> FALSE, data |-> <<>>]

\* encryptData: null for an empty buffer or a missing key, otherwise the
\* cipher text together with the fresh nonce it was made with.
encryptData(data, key, iv) ==
  IF data = <<>> \/ key = NoKey
    THEN [ok |-> FALSE, encryptedData |-> <<>>, iv |-> <<>>]
    ELSE [ok |-> TRUE, encryptedData |-> subtle_encrypt(iv, key, data), iv |-> iv]

\* A build of the upload path that puts the nonce behind the cipher text.
combinedBuffer_ivLast(iv, encryptedData) == encryptedData \o iv

\* handleUpload's combinedBuffer: the nonce at offset 0, the cipher text after it.
combinedBuffer(iv, encryptedData) == iv \o encryptedData

\* decryptData: too short a buffer is turned down before anything is
\* decrypted; otherwise the first IV_LENGTH_BYTES bytes are the nonce and the
\* rest goes to the cipher.
decryptData(encryptedDataWithIv, key) ==
  IF Len(encryptedDataWithIv) <= IV_LENGTH_BYTES
    THEN [ok |-> FALSE, attempted |-> FALSE, iv |-> <<>>, encryptedData |-> <<>>, data |-> <<>>,
          err |-> "Decryption failed: Invalid encrypted data: too short."]
    ELSE LET iv            == SubSeq(encryptedDataWithIv, 1, IV_LENGTH_BYTES)
             encryptedData == SubSeq(encryptedDataWithIv, IV_LENGTH_BYTES + 1,
                                     Len(encryptedDataWithIv))
             decrypted     == subtle_decrypt(iv, key, encryptedData)
         IN  IF decrypted.ok
               THEN [ok |-> TRUE, attempted |-> TRUE, iv |-> iv,
                     encryptedData |-> encryptedData, data |-> decrypted.data, err |-> ""]
               ELSE [ok |-> FALSE, attempted |-> TRUE, iv |-> iv,
                     encryptedData |-> encryptedData, data |-> <<>>,
                     err |-> "Decryption failed: Likely incorrect key or corrupted data."]

notFile == <<ledger, now, ret, ipfs, shareCall, recordAccessMap, viewCall, connectedUser,
             selectedAccount, encryptionKey, keyCacheRef, signatureRequests,
             writeContractInstance, keyCall, pageCall>>

\* handleUpload has its key and has read the chosen file.
FileRead ==
  /\ fileCall.pc = "idle"
  /\ \E data \in Payloads, key \in Keys \cup {NoKey} :
       fileCall' = [IdleFile EXCEPT !.pc = "read", !.data = data, !.key = key]
  /\ UNCHANGED notFile

\* handleUpload step 3: encryptData with a fresh nonce.
FileEncrypt ==
  /\ fileCall.pc = "read"
  /\ \E iv \in IVs :
       LET r == encryptData(fileCall.data, fileCall.key, iv)
       IN  fileCall' = IF r.ok
                         THEN [fileCall EXCEPT !.pc = "encrypted", !.iv = r.iv,
                                               !.encryptedData = r.encryptedData]
                         ELSE [fileCall EXCEPT !.pc = "failed", !.err = "Upload failed"]
  /\ UNCHANGED notFile

\* The combined buffer is what goes to IPFS.
FileStore ==
  /\ fileCall.pc = "encrypted"
  /\ fileCall' = [fileCall EXCEPT !.pc = "stored",
                                  !.wire = combinedBuffer(fileCall.iv, fileCall.encryptedData)]
  /\ UNCHANGED notFile

\* The lengths a download can come back with: nothing, a bare nonce, a nonce
\* and one byte, a buffer one byte short, the whole buffer.
fetchLengths(wire) == {0, IV_LENGTH_BYTES, IV_LENGTH_BYTES + 1, Len(wire) - 1, Len(wire)}

\* handleViewFile has fetched the bytes behind the record's hash.
FileFetch ==
  /\ fileCall.pc = "stored"
  /\ \E n \in fetchLengths(fileCall.wire), key \in Keys :
       fileCall' = [fileCall EXCEPT !.pc = "fetched", !.decryptKey = key,
                                    !.fetched = SubSeq(fileCall.wire, 1, n)]
  /\ UNCHANGED notFile

\* handleViewFile step 4: decryptData on what was fetched.
FileDecrypt ==
  /\ fileCall.pc = "fetched"
  /\ LET r == decryptData(fileCall.fetched, fileCall.decryptKey)
     IN  fileCall' = [fileCall EXCEPT !.pc = IF r.ok THEN "decrypted" ELSE "rejected",
                                      !.attempted = r.attempted,
                                      !.out = r.data, !.err = r.err]
  /\ UNCHANGED notFile

FileReturn ==
  /\ fileCall.pc \in {"failed", "decrypted", "rejected"}
  /\ fileCall' = IdleFile
  /\ UNCHANGED notFile

FileNext ==
  \/ FileRead \/ FileEncrypt \/ FileStore \/ FileFetch \/ FileDecrypt \/ FileReturn

SpecFile == Init /\ [][FileNext]_vars

\* C25: what the upload path stores is the 12-byte nonce followed by the
\* cipher text; decryptData splits it into the same two parts and, under the
\* key it was encrypted with, gives back exactly the file; a buffer of 12
\* bytes or fewer is turned down without the cipher being called.
C25_WireRoundTrip ==
  /\ fileCall.pc \in {"stored", "fetched", "decrypted", "rejected"} =>
       LET r == decryptData(fileCall.wire, fileCall.key)
       IN  /\ fileCall.data # <<>>
           /\ Len(fileCall.iv) = IV_LENGTH_BYTES
           /\ fileCall.wire = fileCall.iv \o fileCall.encryptedData
           /\ r.ok /\ r.iv = fileCall.iv /\ r.encryptedData = fileCall.encryptedData
           /\ r.data = fileCall.data
  /\ (fileCall.pc \in {"decrypted", "rejected"} /\ fileCall.fetched = fileCall.wire
        /\ fileCall.decryptKey = fileCall.key) =>
       (fileCall.pc = "decrypted" /\ fileCall.out = fileCall.data)
  /\ (fileCall.pc \in {"decrypted", "rejected"} /\ Len(fileCall.fetched) <= IV_LENGTH_BYTES) =>
       /\ fileCall.pc = "rejected" /\ ~fileCall.attempted
       /\ fileCall.err = "Decryption failed: Invalid encrypted data: too short."

\* A four-byte file came back whole from the stored buffer.
C25_Witness ==
  /\ fileCall.pc = "decrypted"
  /\ Len(fileCall.data) = 4
  /\ fileCall.fetched = fileCall.wire
  /\ fileCall.wire = fileCall.iv \o fileCall.encryptedData
  /\ fileCall.out = fileCall.data

\* A bare nonce came back from the download and was turned down unread.
C25_ShortWireRejected ==
  /\ fileCall.pc = "rejected"
  /\ Len(fileCall.fetched) = IV_LENGTH_BYTES
  /\ ~fileCall.attempted

\* ------------------------------------------------------------ a growing ledger
\* Two accounts upload while blocks pass, and both send grants, revocations
\* and key pointers for the first record; the ledger takes one upload more
\* than elsewhere.
LedgerUpload == /\ ~legacyDeployed
                /\ \E s \in Writers :
                     uploadRecord_within(MaxRecords + 1, s, "t", "d", "QmData")
                /\ UNCHANGED client
LedgerGrant  == /\ ~legacyDeployed
                /\ \E s \in Writers, p \in Readers, r \in SharedRecords, e \in Leases :
                     grantConsent(s, p, r, "care", e)
                /\ UNCHANGED client
LedgerRevoke == /\ ~legacyDeployed
                /\ \E s \in Writers, c \in 1..MaxConsents : revokeConsent(s, c)
                /\ UNCHANGED client
LedgerShare  == /\ ~legacyDeployed
                /\ \E s \in Writers, r \in SharedRecords, p \in Readers :
                     shareWrappedKeyHash(s, r, p, "Qm1")
                /\ UNCHANGED client

LedgerNext == LedgerUpload \/ LedgerGrant \/ LedgerRevoke \/ LedgerShare \/ Tick

SpecLedger == Init /\ [][LedgerNext]_vars

\* C26: a record, once created, is never changed or removed: every step leaves
\* the id, owner, title, description, content hash and creation time of every
\* existing record as they were, and the record stays stored under its id.
C26_RecordsImmutable ==
  [][\A r \in RecordSlots \ {0} :
       recordExists(r) =>
         /\ healthRecords[r].id = r
         /\ healthRecords'[r] = healthRecords[r]
         /\ r <= recordIds']_vars

\* Two records of different owners, the first one older than the second, after
\* a consent on the first was granted and revoked and a pointer was stored.
C26_Witness ==
  /\ recordIds = MaxRecords + 1
  /\ healthRecords[1].id = 1 /\ healthRecords[2].id = 2
  /\ healthRecords[1].patientAddress # healthRecords[2].patientAddress
  /\ healthRecords[1].dateCreated < healthRecords[2].dateCreated
  /\ consents[1].id = 1 /\ consents[1].recordId = 1 /\ ~consents[1].isActive
  /\ wrappedKeyIpfsHashes[1]["B"] # ""

\* C27: identifiers are handed out by counter. A step raises a counter by at
\* most one; the step that raises the consent counter is a successful grant
\* that answers with the new counter value and stores, in the slot of that id
\* which was empty until then, a consent with every field set, leaving all
\* other consents as they were; every successful grant does so, also when an
\* equal consent is already stored; uploads do the same for records. So the
\* stored consents (records) are exactly those under ids 1..counter, each
\* carrying its own id.
C27_IdAssignment ==
  [][/\ consentIds' \in {consentIds, consentIds + 1}
     /\ recordIds' \in {recordIds, recordIds + 1}
     /\ consentIds' = consentIds + 1 =>
          /\ ret'.op = "grantConsent" /\ ret'.ok /\ ret'.val = consentIds'
          /\ consents[consentIds'] = NoConsent
          /\ consents'[consentIds'].patientAddress = ret'.sender
          /\ consents'[consentIds'].providerAddress # ZeroAddr
          /\ recordExists(consents'[consentIds'].recordId)
          /\ consents'[consentIds'].expiryDate > now
          /\ consents'[consentIds'].isActive
          /\ \A i \in 1..consentIds : consents'[i] = consents[i]
     /\ (ret' # ret /\ ret'.op = "grantConsent" /\ ret'.ok) => consentIds' = consentIds + 1
     /\ recordIds' = recordIds + 1 =>
          /\ ret'.op = "uploadRecord" /\ ret'.ok /\ ret'.val = recordIds'
          /\ healthRecords[recordIds'] = NoRecord
          /\ healthRecords'[recordIds'].patientAddress = ret'.sender
          /\ healthRecords'[recordIds'].dataHash # ""
          /\ healthRecords'[recordIds'].dateCreated = now
          /\ \A i \in 1..recordIds : healthRecords'[i] = healthRecords[i]
     /\ (ret' # ret /\ ret'.op = "uploadRecord" /\ ret'.ok) => recordIds' = recordIds + 1
     /\ \A i \in 1..MaxConsents :
          IF i <= consentIds' THEN consents'[i].id = i ELSE consents'[i] = NoConsent
     /\ \A i \in RecordSlots \ {0} :
          IF i <= recordIds' THEN healthRecords'[i].id = i ELSE healthRecords'[i] = NoRecord
    ]_vars

\* Two grants of the same owner for the same record and provider, stored side
\* by side under ids 1 and 2, both active, next to two records.
C27_Witness ==
  /\ consentIds = 2 /\ recordIds = 2
  /\ consents[1].id = 1 /\ consents[2].id = 2
  /\ sameGrant(consents[1], consents[2])
  /\ consents[1].isActive /\ consents[2].isActive
  /\ ret.op = "grantConsent" /\ ret.ok /\ ret.val = 2

\* ------------------------------------------- pointers and the consent lifecycle

\* C28: a stored key pointer does not follow the consent it was shared under.
\* A revocation, a grant and the passing of time leave every pointer as it
\* was; the owner's shareWrappedKeyHash passes its checks whether or not any
\* consent exists; so in the step that gives a provider a valid consent again,
\* the provider's getWrappedKeyHash answers with the pointer that was stored
\* before that step.
C28_PointerOutlivesConsent ==
  [][/\ (consents' # consents \/ consentIds' # consentIds \/ now' # now
           \/ ret'.op \in {"revokeConsent", "grantConsent"}) =>
          wrappedKeyIpfsHashes' = wrappedKeyIpfsHashes
     /\ \A r \in RecordIds, p \in Readers, h \in Cids :
          recordExists(r) =>
            shareWrappedKeyHashCheck(healthRecords[r].patientAddress, r, p, h) = ""
     /\ \A r \in RecordIds \ {0}, p \in Readers :
          (recordExists(r) /\ ~hasValidConsent(r, p) /\ hasValidConsent(r, p)') =>
            /\ getWrappedKeyHash(p, r, p)'.ok
            /\ getWrappedKeyHash(p, r, p)'.val = wrappedKeyIpfsHashes[r][p]
    ]_vars

\* The first consent was revoked, a second one for the same record and
\* provider has just been granted, and the provider reads the pointer that
\* was shared earlier.
C28_Witness ==
  /\ ret.op = "grantConsent" /\ ret.ok /\ ret.val = 2
  /\ ~consents[1].isActive /\ consents[2].isActive
  /\ sameGrant(consents[1], consents[2])
  /\ wrappedKeyIpfsHashes[consents[2].recordId]["B"] # ""
  /\ getWrappedKeyHash("B", consents[2].recordId, "B").ok
  /\ getWrappedKeyHash("B", consents[2].recordId, "B").val
       = wrappedKeyIpfsHashes[consents[2].recordId]["B"]

\* A pointer was stored for a provider who never had a consent.
C28_SharedWithoutConsent ==
  /\ consentIds = 0
  /\ \E r \in RecordIds \ {0} : wrappedKeyIpfsHashes[r]["B"] # ""

\* ------------------------------------------------------- who signs the writes

\* C29: while an identity is connected, the contract instance getContract
\* hands out is bound to the signer of that identity.
C29_SignerIsConnectedIdentity ==
  connectedUser # ZeroAddr => getContract = connectedUser

\* The same seen from the ledger: a transaction a page handler sends arrives
\* with the connected identity as msg.sender.
C29_WritesSignedByConnected ==
  [][(pageCall' # pageCall /\ (ret' # ret \/ ledger' # ledger)) =>
       ret'.sender = connectedUser]_vars

\* ------------------------------------------------ the grant flow and the share

\* C30: in the owner's grant flow the share call is started only by the
\* consent handler, for a consent id above zero under which the ledger holds
\* a consent of the same record and provider as the share is called with; a
\* submit that ends without an id ends the handler with the share call
\* untouched; and no step of the handler after the grant, a failed share
\* included, changes a consent.
C30_ShareFollowsGrant ==
  [][/\ (shareCall["s1"].pc = "idle" /\ shareCall'["s1"].pc # "idle") =>
          /\ pageCall.handler = "consent" /\ pageCall.pc \in {"granted", "key"}
          /\ pageCall'.pc = "share"
          /\ pageCall.consentId > 0
          /\ consents[pageCall.consentId].id = pageCall.consentId
          /\ consents[pageCall.consentId].isActive
          /\ shareCall'["s1"].recordId = consents[pageCall.consentId].recordId
          /\ shareCall'["s1"].providerAddress = consents[pageCall.consentId].providerAddress
     /\ (pageCall.pc = "idle" /\ pageCall'.handler = "consent") =>
          /\ shareCall' = shareCall
          /\ pageCall'.pc \in {"granted", "failed"}
          /\ pageCall'.pc = "granted" <=>
               (consentIds' = consentIds + 1 /\ pageCall'.consentId = consentIds')
     /\ (pageCall.handler = "consent" /\ pageCall.pc = "failed") =>
          (shareCall' = shareCall /\ pageCall'.pc \in {"failed", "idle"})
     /\ (pageCall.handler = "consent" /\ pageCall.pc \in {"granted", "key", "share"}) =>
          /\ consents' = consents /\ consentIds' = consentIds
          /\ pageCall'.pc = "failed" => consents[pageCall.consentId].isActive
    ]_vars

\* The consent is active on the ledger, the share failed, and no pointer is
\* stored for its record and provider.
C30_Witness ==
  /\ pageCall.handler = "consent" /\ pageCall.pc = "failed"
  /\ pageCall.step = "The automatic key sharing process failed."
  /\ pageCall.consentId > 0
  /\ consents[pageCall.consentId].isActive
  /\ consents[pageCall.consentId].recordId = pageCall.recordId
  /\ wrappedKeyIpfsHashes[pageCall.recordId][pageCall.providerAddress] = ""

\* The grant was mined but its id could not be read: no share was started.
C30_NoIdNoShare ==
  /\ pageCall.handler = "consent" /\ pageCall.pc = "failed"
  /\ pageCall.step = "Failed to retrieve the Consent ID"
  /\ consentIds > 0
  /\ shareCall["s1"] = IdleShare

====
